---- MODULE Spec2Model ----
(***************************************************************************)
(* Model of the stream parser of src/lib/ai/parseStream.ts (StreamParser)  *)
(* and of the way the streaming client hands it chunks, of the streaming   *)
(* client itself (streamOpenRouter of src/lib/ai/openrouter.ts), of        *)
(* bootWebContainer of src/lib/webcontainer/container.ts, of the chat      *)
(* store (src/store/chatStore.ts), of the container store                  *)
(* (src/store/containerStore.ts), of the debounced save of the code editor *)
(* and of handleBoot of src/components/Header.tsx.                         *)
(*                                                                         *)
(* Text is modelled as TLA+ strings, character for character: the          *)
(* delimiters are the literals of the source, the regular expressions are  *)
(* matched as JavaScript matches them (leftmost match), and String.trim    *)
(* removes leading and trailing white space.                               *)
(***************************************************************************)
EXTENDS Integers, Sequences, FiniteSets, TLC

VARIABLES
    plan,           \* the actions the assistant puts in its artifact (input)
    stream,         \* the text of the whole response, as the transport will deliver it
    pos,            \* number of characters of stream already handed to processChunk
    container,      \* TRUE iff a WebContainer is attached (this.container # null)
    state,          \* this.state
    buffer,         \* this.buffer
    contentBuffer,  \* this.contentBuffer
    currentAction,  \* this.currentAction
    calls,          \* the processChunk calls suspended at an await of container I/O
    log,            \* observer events (but onText) and container calls, in order
    textOut,        \* concatenation of the arguments of onText, in call order
    lastText,       \* about the latest processChunk call: how onText was invoked
    finalized,      \* number of finalize() calls so far
    open,           \* TRUE while the transport of the response delivers chunks
    warned,         \* number of "Stream ended with incomplete action" warnings
    fresh,          \* a parser constructed when the latest response began, fed
                    \* the same chunks (the reference of a reused parser)
    other,          \* a second StreamParser, of another conversation
    router,         \* a call of streamOpenRouter (src/lib/ai/openrouter.ts)
    boot,           \* the module of bootWebContainer and the calls made to it
    chat,           \* the chat store (src/store/chatStore.ts)
    store,          \* the container store (src/store/containerStore.ts)
    editor,         \* the debounced save of CodeEditor and the files of the container
    header,         \* a call of handleBoot (src/components/Header.tsx)
    did             \* the latest action called on the container store

vars == <<plan, stream, pos, container, state, buffer, contentBuffer,
          currentAction, calls, log, textOut, lastText, finalized, open, warned,
          fresh, other, router, boot, chat, store, editor, header,
          did>>

\* the variables of the components beside the parser
\* the variables of the stores and of the components that use them
ui == <<chat, store, editor, header, did>>

apart == <<other, router, boot, ui>>

\* the variables of the parser and of its input
parserVars ==
    <<plan, stream, pos, container, state, buffer, contentBuffer, currentAction,
      calls, log, textOut, lastText, finalized, open, warned, fresh>>

-----------------------------------------------------------------------------
(* Bounds of the model. *)

\* largest number of actions in the artifact of a response
MaxActions == 2

\* largest number of characters of one chunk; a chunk may also hold all the
\* rest of the response
MaxChunk == 14

\* largest number of handleEditorChange calls in a run
MaxEdits == 2

\* largest number of handleBoot calls in a run
MaxHandleBoot == 3

\* largest number of generateId() calls of the chat store in a run
MaxIds == 4

\* largest number of characters of the content of a chat message
MaxContent == 2

\* largest number of finalize() calls in a run in which the parser is reused
MaxFinalize == 1

\* largest number of processChunk calls suspended at container I/O at a time
MaxCalls == 2

\* largest number of bootWebContainer calls on one page
MaxBootCalls == 4

\* largest number of characters one read of the response body returns; a
\* read may also return all the rest of the body
MaxRead == 9

-----------------------------------------------------------------------------
(* Strings. Positions are 1-based, as in SubSeq; indexes returned by       *)
(* IndexOf are 0-based, as in JavaScript.                                  *)

Max(a, b) == IF a >= b THEN a ELSE b

MinOf(S) == CHOOSE x \in S : \A y \in S : x <= y

CharAt(s, p) == SubSeq(s, p, p)

\* s.slice(from) and s.slice(from, to) for 0 <= from <= to
SliceFrom(s, from) == SubSeq(s, from + 1, Len(s))

Slice(s, from, to) == SubSeq(s, from + 1, to)

\* TRUE iff the literal lit occurs in s at position p
LitAt(s, p, lit) ==
    /\ p >= 1
    /\ p + Len(lit) - 1 <= Len(s)
    /\ SubSeq(s, p, p + Len(lit) - 1) = lit

\* the 0-based index of the first occurrence of lit in s at or after position
\* from, or -1; the search goes through s in blocks of Len(lit) positions
RECURSIVE IndexFrom(_, _, _)
IndexFrom(s, lit, from) ==
    LET last == Len(s) - Len(lit) + 1
        hi == IF from + Len(lit) - 1 < last THEN from + Len(lit) - 1 ELSE last
        hits == {p \in from..hi : SubSeq(s, p, p + Len(lit) - 1) = lit}
    IN  IF hits # {} THEN MinOf(hits) - 1
        ELSE IF hi >= last THEN -1
        ELSE IndexFrom(s, lit, hi + 1)

\* s.indexOf(lit): the 0-based index of the first occurrence, or -1
IndexOf(s, lit) == IndexFrom(s, lit, 1)

\* s.includes(lit)
Includes(s, lit) == IndexOf(s, lit) # -1

\* the characters \s matches and trim() removes, among those responses hold
WhiteSpace == {" ", "\t", "\n", "\r"}

RECURSIVE TrimStart(_)
TrimStart(s) ==
    IF Len(s) > 0 /\ CharAt(s, 1) \in WhiteSpace THEN TrimStart(Tail(s)) ELSE s

RECURSIVE TrimEnd(_)
TrimEnd(s) ==
    IF Len(s) > 0 /\ CharAt(s, Len(s)) \in WhiteSpace
    THEN TrimEnd(SubSeq(s, 1, Len(s) - 1))
    ELSE s

\* a trim that leaves the white space at the end
TrimStartOnly(s) == TrimStart(s)

\* String.prototype.trim
Trim(s) == TrimEnd(TrimStart(s))

-----------------------------------------------------------------------------
(* The tag grammar: the literals and regular expressions of the parser.    *)

ArtifactOpenLit == "<boltArtifact"
ActionOpenLit == "<boltAction"
ArtifactCloseTag == "</boltArtifact>"
closeTag == "</boltAction>"
Quote == "\""

\* first position >= p of s that holds no white space (end of a \s* run)
RECURSIVE WsEnd(_, _)
WsEnd(s, p) ==
    IF p <= Len(s) /\ CharAt(s, p) \in WhiteSpace THEN WsEnd(s, p + 1) ELSE p

\* first position >= p of s that holds a quote, Len(s) + 1 if there is none
RECURSIVE QuoteFrom(_, _)
QuoteFrom(s, p) ==
    IF p <= Len(s) /\ CharAt(s, p) # Quote THEN QuoteFrom(s, p + 1) ELSE p

\* \s+name="([^"]+)" at position p: whether it matches, the position after
\* the match and the captured value
MatchAttr(s, p, name) ==
    LET q == WsEnd(s, p)
        v == q + Len(name) + 2
        e == QuoteFrom(s, v)
        ok == /\ q > p
              /\ LitAt(s, q, name \o "=" \o Quote)
              /\ e <= Len(s)
              /\ e > v
    IN  [ok |-> ok,
         next |-> IF ok THEN e + 1 ELSE p,
         value |-> IF ok THEN SubSeq(s, v, e - 1) ELSE ""]

\* \s+lit at position p
MatchWsLit(s, p, lit) ==
    LET q == WsEnd(s, p)
        ok == q > p /\ LitAt(s, q, lit)
    IN  [ok |-> ok, next |-> IF ok THEN q + Len(lit) ELSE p]

NoMatch == [ok |-> FALSE, index |-> -1, length |-> 0, a |-> "", b |-> ""]

\* /<boltArtifact\s+id="([^"]+)"\s+title="([^"]+)">/ anchored at position p
ArtifactOpenAt(s, p) ==
    IF ~LitAt(s, p, ArtifactOpenLit) THEN NoMatch
    ELSE LET id == MatchAttr(s, p + Len(ArtifactOpenLit), "id")
             title == MatchAttr(s, id.next, "title")
         IN  IF id.ok /\ title.ok /\ LitAt(s, title.next, ">")
             THEN [ok |-> TRUE, index |-> p - 1, length |-> title.next + 1 - p,
                   a |-> id.value, b |-> title.value]
             ELSE NoMatch

\* /<boltAction\s+type="file"\s+filePath="([^"]+)">/ anchored at position p
FileOpenAt(s, p) ==
    IF ~LitAt(s, p, ActionOpenLit) THEN NoMatch
    ELSE LET type == MatchWsLit(s, p + Len(ActionOpenLit),
                                "type=" \o Quote \o "file" \o Quote)
             path == MatchAttr(s, type.next, "filePath")
         IN  IF type.ok /\ path.ok /\ LitAt(s, path.next, ">")
             THEN [ok |-> TRUE, index |-> p - 1, length |-> path.next + 1 - p,
                   a |-> path.value, b |-> ""]
             ELSE NoMatch

\* /<boltAction\s+type="shell">/ anchored at position p
ShellOpenAt(s, p) ==
    IF ~LitAt(s, p, ActionOpenLit) THEN NoMatch
    ELSE LET type == MatchWsLit(s, p + Len(ActionOpenLit),
                                "type=" \o Quote \o "shell" \o Quote \o ">")
         IN  IF type.ok
             THEN [ok |-> TRUE, index |-> p - 1, length |-> type.next - p,
                   a |-> "", b |-> ""]
             ELSE NoMatch

\* the regular expression re tried at position p of s
MatchAt(s, re, p) ==
    IF re = "artifact" THEN ArtifactOpenAt(s, p)
    ELSE IF re = "file" THEN FileOpenAt(s, p)
    ELSE ShellOpenAt(s, p)

\* s.match(re) for a regular expression without the g flag: the leftmost
\* match, searched from position from on in blocks as long as "<boltAction"
RECURSIVE MatchFrom(_, _, _)
MatchFrom(s, re, from) ==
    LET to == from + Len(ActionOpenLit) - 1
        hi == IF to < Len(s) THEN to ELSE Len(s)
        hits == {p \in from..hi : CharAt(s, p) = "<" /\ MatchAt(s, re, p).ok}
    IN  IF hits # {} THEN MatchAt(s, re, MinOf(hits))
        ELSE IF hi >= Len(s) THEN NoMatch
        ELSE MatchFrom(s, re, hi + 1)

FirstMatch(s, re) == MatchFrom(s, re, 1)

MatchArtifactOpen(s) == FirstMatch(s, "artifact")
MatchFileOpen(s) == FirstMatch(s, "file")
MatchShellOpen(s) == FirstMatch(s, "shell")

-----------------------------------------------------------------------------
(* The parser. A machine m is the session (the fields of StreamParser),    *)
(* the events and container calls made so far, and the position and the    *)
(* locals of the processChunk call that is running:                        *)
(*   pc = "loop"    in the loop of processBuffer, about to switch on state *)
(*   pc = "mkdir"   suspended in ensureDirectory at await fs.mkdir         *)
(*   pc = "write"   suspended in writeFile at await fs.writeFile           *)
(*   pc = "tree"    suspended in writeFile at await getFileTree            *)
(*   pc = "done"    a handler returned false: the loop ends, processChunk  *)
(*                  returns                                                *)
(* An await of a promise that is already resolved is run through; a call   *)
(* gives way to other code only at the awaits of container I/O.            *)

NullAction == [type |-> "null", filePath |-> "", content |-> ""]

Event(ev, type, filePath, content, id, title) ==
    [ev |-> ev, type |-> type, filePath |-> filePath, content |-> content,
     id |-> id, title |-> title]

ArtifactStartEv(id, title) == Event("artifactStart", "", "", "", id, title)
ArtifactEndEv == Event("artifactEnd", "", "", "", "", "")
ActionStartEv(type, filePath) == Event("actionStart", type, filePath, "", "", "")
ActionEndEv(type, filePath, content) ==
    Event("actionEnd", type, filePath, content, "", "")
FileWrittenEv(filePath) == Event("fileWritten", "", filePath, "", "", "")
ShellCommandEv(command) == Event("shellCommand", "", "", command, "", "")
ErrorEv(filePath) == Event("error", "", filePath, "", "", "")
\* calls on the container and on the container store
MkdirCall(path) == Event("fs.mkdir", "", path, "", "", "")
WriteFileCall(filePath, content) == Event("fs.writeFile", "", filePath, content, "", "")
GetFileTreeCall == Event("getFileTree", "", "", "", "", "")
SetFileTreeCall == Event("setFileTree", "", "", "", "", "")
\* the container made the call fail: fs.mkdir, fs.writeFile or getFileTree threw
RejectedEv(call, reason, path) == Event("rejected", call, path, reason, "", "")
\* this.events.onText?.(chunk), kept apart from log by the actions
TextEv(chunk) == Event("text", "", "", chunk, "", "")

\* the fields set by the declarations and the constructor
NewSession ==
    [state |-> "IDLE", buffer |-> "", contentBuffer |-> "",
     currentAction |-> NullAction]

Machine(sess, cont, evs) ==
    [state |-> sess.state, buffer |-> sess.buffer,
     contentBuffer |-> sess.contentBuffer, currentAction |-> sess.currentAction,
     container |-> cont, log |-> evs,
     pc |-> "loop", filePath |-> "", content |-> "",
     parts |-> <<>>, i |-> 0]

SessionOf(m) ==
    [state |-> m.state, buffer |-> m.buffer, contentBuffer |-> m.contentBuffer,
     currentAction |-> m.currentAction]

Emit(m, e) == [m EXCEPT !.log = Append(@, e)]

\* the text a match covers, and its place as the handlers compute it
FullMatch(s, mt) == SubSeq(s, mt.index + 1, mt.index + mt.length)

\* a slice that drops the text before the tag and keeps the tag
AfterMatchKeepsTag(s, mt) == SliceFrom(s, IndexOf(s, FullMatch(s, mt)))

AfterMatch(s, mt) ==
    LET fullMatch == FullMatch(s, mt)
        matchIndex == IndexOf(s, fullMatch)
    IN  SliceFrom(s, matchIndex + Len(fullMatch))

HandleIdle(m) ==
    LET artifactMatch == MatchArtifactOpen(m.buffer)
    IN  IF artifactMatch.ok
        THEN Emit([m EXCEPT !.buffer = AfterMatch(m.buffer, artifactMatch),
                            !.state = "IN_ARTIFACT"],
                  ArtifactStartEv(artifactMatch.a, artifactMatch.b))
        ELSE IF Includes(m.buffer, ArtifactCloseTag)
        THEN LET closeIndex == IndexOf(m.buffer, ArtifactCloseTag)
             IN  Emit([m EXCEPT !.buffer = SliceFrom(m.buffer,
                                               closeIndex + Len(ArtifactCloseTag)),
                                !.pc = "done"],
                      ArtifactEndEv)
        ELSE [m EXCEPT !.pc = "done"]

\* a handleInArtifact that looks for a shell action before a file action
HandleInArtifactShellFirst(m) ==
    LET fileActionMatch == MatchFileOpen(m.buffer)
        shellActionMatch == MatchShellOpen(m.buffer)
    IN  IF shellActionMatch.ok
        THEN Emit([m EXCEPT !.buffer = AfterMatch(m.buffer, shellActionMatch),
                            !.state = "IN_SHELL_ACTION",
                            !.currentAction = [type |-> "shell", filePath |-> "",
                                               content |-> ""],
                            !.contentBuffer = ""],
                  ActionStartEv("shell", ""))
        ELSE IF fileActionMatch.ok
        THEN Emit([m EXCEPT !.buffer = AfterMatch(m.buffer, fileActionMatch),
                            !.state = "IN_FILE_ACTION",
                            !.currentAction = [type |-> "file",
                                               filePath |-> fileActionMatch.a,
                                               content |-> ""],
                            !.contentBuffer = ""],
                  ActionStartEv("file", fileActionMatch.a))
        ELSE IF Includes(m.buffer, ArtifactCloseTag)
        THEN LET closeIndex == IndexOf(m.buffer, ArtifactCloseTag)
             IN  Emit([m EXCEPT !.buffer = SliceFrom(m.buffer,
                                               closeIndex + Len(ArtifactCloseTag)),
                                !.state = "IDLE"],
                      ArtifactEndEv)
        ELSE [m EXCEPT !.pc = "done"]

HandleInArtifact(m) ==
    LET fileActionMatch == MatchFileOpen(m.buffer)
        shellActionMatch == MatchShellOpen(m.buffer)
    IN  IF fileActionMatch.ok
        THEN Emit([m EXCEPT !.buffer = AfterMatch(m.buffer, fileActionMatch),
                            !.state = "IN_FILE_ACTION",
                            !.currentAction = [type |-> "file",
                                               filePath |-> fileActionMatch.a,
                                               content |-> ""],
                            !.contentBuffer = ""],
                  ActionStartEv("file", fileActionMatch.a))
        ELSE IF shellActionMatch.ok
        THEN Emit([m EXCEPT !.buffer = AfterMatch(m.buffer, shellActionMatch),
                            !.state = "IN_SHELL_ACTION",
                            !.currentAction = [type |-> "shell", filePath |-> "",
                                               content |-> ""],
                            !.contentBuffer = ""],
                  ActionStartEv("shell", ""))
        ELSE IF Includes(m.buffer, ArtifactCloseTag)
        THEN LET closeIndex == IndexOf(m.buffer, ArtifactCloseTag)
             IN  Emit([m EXCEPT !.buffer = SliceFrom(m.buffer,
                                               closeIndex + Len(ArtifactCloseTag)),
                                !.state = "IDLE"],
                      ArtifactEndEv)
        ELSE [m EXCEPT !.pc = "done"]

\* a parser that withholds two characters fewer than the closing tag has
SafeLengthShort(buf) == Max(0, Len(buf) - (Len(closeTag) - 2))

\* Math.max(0, this.buffer.length - closeTag.length)
SafeLength(buf) == Max(0, Len(buf) - Len(closeTag))

\* the else branch of handleInFileAction and handleInShellAction
KeepBuffering(m) ==
    LET safeLength == SafeLength(m.buffer)
    IN  [m EXCEPT !.contentBuffer = @ \o Slice(m.buffer, 0, safeLength),
                  !.buffer = SliceFrom(m.buffer, safeLength),
                  !.pc = "done"]

\* a parser that takes the first character of the closing tag as content
TakeContentAndTagStart(m, closeIndex) ==
    [m EXCEPT !.contentBuffer = @ \o Slice(m.buffer, 0, closeIndex + 1),
              !.buffer = SliceFrom(m.buffer, closeIndex + Len(closeTag))]

\* the closing tag was found at closeIndex: move the content, drop the tag
TakeContent(m, closeIndex) ==
    [m EXCEPT !.contentBuffer = @ \o Slice(m.buffer, 0, closeIndex),
              !.buffer = SliceFrom(m.buffer, closeIndex + Len(closeTag))]

\* a reset that leaves the content of the action in contentBuffer
ResetActionKeepsContent(m) ==
    [m EXCEPT !.currentAction = NullAction,
              !.state = "IN_ARTIFACT",
              !.pc = "loop"]

\* "Reset and go back to artifact state", and return true
ResetAction(m) ==
    [m EXCEPT !.currentAction = NullAction,
              !.contentBuffer = "",
              !.state = "IN_ARTIFACT",
              !.pc = "loop"]

\* handleInFileAction after await this.writeFile(...)
FileActionEnd(m) ==
    ResetAction(Emit(m, ActionEndEv("file", m.filePath, m.content)))

RECURSIVE SplitSlash(_)
\* s.split('/')
SplitSlash(s) ==
    LET k == IndexOf(s, "/")
    IN  IF k = -1 THEN <<s>>
        ELSE <<Slice(s, 0, k)>> \o SplitSlash(SliceFrom(s, k + 1))

RECURSIVE JoinSlash(_)
\* parts.join('/')
JoinSlash(parts) ==
    IF Len(parts) = 0 THEN ""
    ELSE IF Len(parts) = 1 THEN parts[1]
    ELSE parts[1] \o "/" \o JoinSlash(Tail(parts))

\* filePath.split('/').slice(0, -1).join('/')
DirPath(filePath) ==
    LET segs == SplitSlash(filePath)
    IN  JoinSlash(SubSeq(segs, 1, Len(segs) - 1))

\* an ensureDirectory that creates the immediate parent only
MkdirParentOnly(dirPath) == <<dirPath>>

\* the values currentPath takes in the loop of ensureDirectory
MkdirPaths(dirPath) ==
    LET parts == SelectSeq(SplitSlash(dirPath), LAMBDA x : x # "")
    IN  [k \in 1..Len(parts) |-> JoinSlash(SubSeq(parts, 1, k))]

\* writeFile at "await this.container.fs.writeFile(filePath, content)"
CallFsWrite(m) ==
    Emit([m EXCEPT !.pc = "write"], WriteFileCall(m.filePath, m.content))

\* ensureDirectory at "await this.container.fs.mkdir(currentPath)", k-th pass
CallMkdir(m, k) ==
    Emit([m EXCEPT !.pc = "mkdir", !.i = k], MkdirCall(m.parts[k]))

\* a writeFile that reports the file as written when no container is attached
WriteFileBareReports(m) ==
    IF ~m.container THEN FileActionEnd(Emit(m, FileWrittenEv(m.filePath)))
    ELSE LET dirPath == DirPath(m.filePath)
             parts == IF dirPath # "" THEN MkdirPaths(dirPath) ELSE <<>>
             m1 == [m EXCEPT !.parts = parts]
         IN  IF Len(parts) > 0 THEN CallMkdir(m1, 1) ELSE CallFsWrite(m1)

\* writeFile, up to its first await of container I/O
WriteFile(m) ==
    IF ~m.container THEN FileActionEnd(m)
    ELSE LET dirPath == DirPath(m.filePath)
             parts == IF dirPath # "" THEN MkdirPaths(dirPath) ELSE <<>>
             m1 == [m EXCEPT !.parts = parts]
         IN  IF Len(parts) > 0 THEN CallMkdir(m1, 1) ELSE CallFsWrite(m1)

\* an ensureDirectory without its try / catch: the error of fs.mkdir reaches
\* the catch of writeFile
MkdirReturnThrows(m, ok) ==
    IF ~ok THEN FileActionEnd(Emit(m, ErrorEv(m.filePath)))
    ELSE IF m.i < Len(m.parts) THEN CallMkdir(m, m.i + 1) ELSE CallFsWrite(m)

\* fs.mkdir has returned (ok) or thrown (~ok): the catch ignores the error
MkdirReturn(m, ok) ==
    IF m.i < Len(m.parts) THEN CallMkdir(m, m.i + 1) ELSE CallFsWrite(m)

\* a writeFile without its try / catch: the error leaves processChunk
WriteReturnUncaught(m, ok) ==
    IF ok THEN Emit([m EXCEPT !.pc = "tree"], GetFileTreeCall)
    ELSE [m EXCEPT !.pc = "done"]

\* fs.writeFile has returned or thrown
WriteReturn(m, ok) ==
    IF ok THEN Emit([m EXCEPT !.pc = "tree"], GetFileTreeCall)
    ELSE FileActionEnd(Emit(m, ErrorEv(m.filePath)))

\* a writeFile whose refresh is not in a try of its own: the error of
\* getFileTree reaches the outer catch
TreeReturnThrows(m, ok) ==
    IF ok THEN FileActionEnd(Emit(Emit(m, SetFileTreeCall), FileWrittenEv(m.filePath)))
    ELSE FileActionEnd(Emit(m, ErrorEv(m.filePath)))

\* getFileTree has returned or thrown
TreeReturn(m, ok) ==
    LET m1 == IF ok THEN Emit(m, SetFileTreeCall) ELSE m
    IN  FileActionEnd(Emit(m1, FileWrittenEv(m.filePath)))

HandleInFileAction(m) ==
    LET closeIndex == IndexOf(m.buffer, closeTag)
    IN  IF closeIndex # -1
        THEN LET m1 == TakeContent(m, closeIndex)
                 content == Trim(m1.contentBuffer)
                 filePath == m1.currentAction.filePath
             IN  IF filePath # "" /\ content # ""
                 THEN WriteFile([m1 EXCEPT !.filePath = filePath,
                                           !.content = content])
                 ELSE ResetAction(m1)
        ELSE KeepBuffering(m)

\* a parser that forwards the command only when a container is attached
HandleInShellActionNeedsContainer(m) ==
    LET closeIndex == IndexOf(m.buffer, closeTag)
    IN  IF closeIndex # -1
        THEN LET m1 == TakeContent(m, closeIndex)
                 command == Trim(m1.contentBuffer)
             IN  IF command # "" /\ m1.container
                 THEN ResetAction(Emit(Emit(m1, ShellCommandEv(command)),
                                       ActionEndEv("shell", "", command)))
                 ELSE IF command # ""
                 THEN ResetAction(Emit(m1, ActionEndEv("shell", "", command)))
                 ELSE ResetAction(m1)
        ELSE KeepBuffering(m)

HandleInShellAction(m) ==
    LET closeIndex == IndexOf(m.buffer, closeTag)
    IN  IF closeIndex # -1
        THEN LET m1 == TakeContent(m, closeIndex)
                 command == Trim(m1.contentBuffer)
             IN  IF command # ""
                 THEN ResetAction(Emit(Emit(m1, ShellCommandEv(command)),
                                       ActionEndEv("shell", "", command)))
                 ELSE ResetAction(m1)
        ELSE KeepBuffering(m)

\* a loop that lets handleInArtifact look at the buffer of an action as soon
\* as the closing tag of the artifact is in it
PassLeavesActionAtArtifactClose(m) ==
    CASE m.state = "IDLE" -> HandleIdle(m)
      [] m.state = "IN_ARTIFACT" -> HandleInArtifact(m)
      [] m.state = "IN_FILE_ACTION" ->
             IF Includes(m.buffer, ArtifactCloseTag) THEN HandleInArtifact(m)
             ELSE HandleInFileAction(m)
      [] m.state = "IN_SHELL_ACTION" ->
             IF Includes(m.buffer, ArtifactCloseTag) THEN HandleInArtifact(m)
             ELSE HandleInShellAction(m)
      [] OTHER -> [m EXCEPT !.pc = "done"]

\* one pass of the loop of processBuffer
Pass(m) ==
    CASE m.state = "IDLE" -> HandleIdle(m)
      [] m.state = "IN_ARTIFACT" -> HandleInArtifact(m)
      [] m.state = "IN_FILE_ACTION" -> HandleInFileAction(m)
      [] m.state = "IN_SHELL_ACTION" -> HandleInShellAction(m)
      [] OTHER -> [m EXCEPT !.pc = "done"]

\* the container answers the I/O the call is suspended at
IOReturn(m, ok) ==
    CASE m.pc = "mkdir" -> MkdirReturn(m, ok)
      [] m.pc = "write" -> WriteReturn(m, ok)
      [] m.pc = "tree" -> TreeReturn(m, ok)
      [] OTHER -> m

\* the I/O the call waits for throws: faults holds "mkdir" (the directory
\* exists already), "mkdirOther" (fs.mkdir fails for another reason), "write"
\* (fs.writeFile fails), "tree" (getFileTree fails)
Fails(m, faults) == m.pc \in faults \/ (m.pc = "mkdir" /\ "mkdirOther" \in faults)

\* the failure as the container reports it
Rejection(m, faults) ==
    RejectedEv(m.pc,
               IF m.pc = "mkdir" /\ "mkdir" \in faults THEN "EEXIST" ELSE "other",
               IF m.pc = "mkdir" THEN m.parts[m.i]
               ELSE IF m.pc = "write" THEN m.filePath ELSE "")

Answered(m, faults) == IF Fails(m, faults) THEN Emit(m, Rejection(m, faults)) ELSE m

\* one step of a call: a pass of the loop, or the answer of the container to
\* the I/O the call waits for
Step(m, faults) ==
    IF m.pc = "loop" THEN Pass(m)
    ELSE IOReturn(Answered(m, faults), ~Fails(m, faults))

\* the call runs until it returns or, unless awaited, until it is suspended
\* at container I/O
RECURSIVE Run(_, _, _)
Run(m, awaited, faults) ==
    IF m.pc = "done" \/ (~awaited /\ m.pc # "loop") THEN m
    ELSE Run(Step(m, faults), awaited, faults)

RunSync(m) == Run(m, FALSE, {})

\* an awaited call: it runs to its return, the container answering each I/O
RunAwaited(m, faults) == Run(m, TRUE, faults)

\* processChunk up to processBuffer: this.buffer += chunk
AppendChunk(m, chunk) == [m EXCEPT !.buffer = @ \o chunk]

\* a parser that forwards the text only while it is outside an artifact
OnTextWhenIdle(m, chunk) == IF m.state = "IDLE" THEN Emit(m, TextEv(chunk)) ELSE m

\* this.events.onText?.(chunk)
OnText(m, chunk) == Emit(m, TextEv(chunk))

\* processChunk up to its first await of container I/O, or to its return
ProcessChunkSync(m, chunk) ==
    RunSync(OnText(AppendChunk(m, chunk), chunk))

\* "await parser.processChunk(chunk)" with a container that answers
ProcessChunkAwaited(m, chunk, faults) ==
    RunAwaited(OnText(AppendChunk(m, chunk), chunk), faults)

\* a finalize() that leaves the unparsed text in the buffer
FinalizeKeepsBuffer(sess) ==
    [sess EXCEPT !.state = "IDLE", !.contentBuffer = "",
                 !.currentAction = NullAction]

\* finalize(): the condition of its console.warn
FinalizeWarns(sess) == sess.state # "IDLE" /\ sess.contentBuffer # ""

\* finalize()
FinalizeSession(sess) ==
    [sess EXCEPT !.state = "IDLE", !.buffer = "", !.contentBuffer = "",
                 !.currentAction = NullAction]

-----------------------------------------------------------------------------
(* The responses: one artifact holding up to MaxActions actions, laid out  *)
(* as the system prompt of src/lib/ai/prompts.ts asks.                     *)

FileAction(filePath, body) == [type |-> "file", filePath |-> filePath, body |-> body]
ShellAction(body) == [type |-> "shell", filePath |-> "", body |-> body]

\* what one action of a response can be: a file in a directory, a shell
\* command, and a file whose content is white space only
ActionChoices ==
    {FileAction("d/x", "\nhi "), ShellAction(" ls\n"), FileAction("y", " ")}

Plans == UNION {[1..k -> ActionChoices] : k \in 0..MaxActions}

ArtifactOpenTag == "<boltArtifact id=" \o Quote \o "a1" \o Quote
                   \o " title=" \o Quote \o "T" \o Quote \o ">"

ActionOpenTag(a) ==
    IF a.type = "file"
    THEN "<boltAction type=" \o Quote \o "file" \o Quote
         \o " filePath=" \o Quote \o a.filePath \o Quote \o ">"
    ELSE "<boltAction type=" \o Quote \o "shell" \o Quote \o ">"

RenderAction(a) == ActionOpenTag(a) \o a.body \o closeTag \o "\n"

RECURSIVE RenderActions(_)
RenderActions(p) ==
    IF Len(p) = 0 THEN "" ELSE RenderAction(Head(p)) \o RenderActions(Tail(p))

\* what precedes the first action: some prose, and the opening of the artifact
Prologue == "ok " \o ArtifactOpenTag \o "\n"

Render(p) == Prologue \o RenderActions(p) \o ArtifactCloseTag

-----------------------------------------------------------------------------
(* The state of the system and its steps.                                  *)

Session ==
    [state |-> state, buffer |-> buffer, contentBuffer |-> contentBuffer,
     currentAction |-> currentAction]

NoFaults == {}

IsText(e) == e.ev = "text"
NotText(e) == e.ev # "text"

RECURSIVE ConcatContent(_)
ConcatContent(evs) ==
    IF Len(evs) = 0 THEN "" ELSE Head(evs).content \o ConcatContent(Tail(evs))

\* how a call invoked onText: how often, and after how many other callbacks
TextShape(added) ==
    LET at == {k \in 1..Len(added) : IsText(added[k])}
    IN  [count |-> Cardinality(at), before |-> IF at = {} THEN 0 ELSE MinOf(at) - 1]

NewFresh == [sess |-> NewSession, log |-> <<>>]

\* the second parser, newly constructed, nothing received of its response
NewOther == [sess |-> NewSession, log |-> <<>>, pos |-> 0, open |-> TRUE]

\* streamOpenRouter was called and awaits fetch
NewRouter ==
    [pc |-> "fetch", body |-> "", read |-> 0, buffer |-> "", signals |-> <<>>]

\* "let webcontainerInstance: WebContainer | null = null" (0 stands for null),
\* no call of bootWebContainer made yet
NewBoot == [instance |-> 0, boots |-> 0, isolated |-> TRUE, calls |-> <<>>]

\* currentStreamId: null
NoId == 0

\* the initial state of the chat store; ids counts the generateId() calls
NewChat ==
    [messages |-> <<>>, isStreaming |-> FALSE, currentStreamId |-> NoId,
     ids |-> 0]

\* activeFile: null (every file has a path)
NoFile == [path |-> "", content |-> "", isDirty |-> FALSE]

\* previewUrl: null, error: null
NoUrl == "null"
NoError == "null"

\* initialState of the container store. Of a file the path, the content and
\* isDirty are kept; name and language are set by the caller of openFile and
\* not read or written by the store
NewStore ==
    [container |-> FALSE, status |-> "idle", previewUrl |-> NoUrl,
     error |-> NoError, activeFile |-> NoFile, openFiles |-> <<>>]

\* no timeout pending
NoTimer == [path |-> "", content |-> ""]

\* the editor before any change: timer is the pending timeout of debounce
\* with the arguments of the call it delays, writes the
\* container.fs.writeFile calls in flight, disk the content of the files of
\* the container, edits the number of handleEditorChange calls
NewEditor ==
    [timer |-> NoTimer, writes |-> <<>>, disk |-> [path \in {"a", "b", "c"} |-> ""],
     edits |-> 0]

\* no call of handleBoot made yet. pc is the await the call is suspended at,
\* ran the calls it made on the container, trail the values it gave to status,
\* failed the step whose failure it caught, exitCode the exit code of npm
\* install (-1 before it exits), listening whether its
\* 'server-ready' listener is registered
NewHeader ==
    [pc |-> "idle", calls |-> 0, ran |-> <<>>, trail |-> <<>>, failed |-> "",
     exitCode |-> -1, listening |-> FALSE]

\* the container store after handleBoot brought the container up
ReadyStore ==
    [NewStore EXCEPT !.container = TRUE, !.status = "ready",
                     !.previewUrl = "http://localhost:5173"]

\* a new parser and nothing received of the response yet, whatever the
\* response, the page and the container store
StartedBare ==
    /\ pos = 0
    /\ container \in BOOLEAN
    /\ state = NewSession.state
    /\ buffer = NewSession.buffer
    /\ contentBuffer = NewSession.contentBuffer
    /\ currentAction = NewSession.currentAction
    /\ calls = <<>>
    /\ log = <<>>
    /\ textOut = ""
    /\ lastText = [count |-> 0, before |-> 0]
    /\ finalized = 0
    /\ open = TRUE
    /\ warned = 0
    /\ fresh = NewFresh
    /\ other = NewOther
    /\ router = NewRouter
    /\ chat = NewChat
    /\ editor = NewEditor
    /\ header = NewHeader
    /\ did = "none"

\* the same before handleBoot was called
StartedSession == StartedBare /\ store = NewStore

\* the same for the response of a plan, on any page
StartedOnPage == stream = Render(plan) /\ StartedSession

\* the same, on a cross-origin isolated page
Started == StartedOnPage /\ boot = NewBoot

Init == plan \in Plans /\ Started

\* the lengths the next chunk can have
ChunkLens ==
    LET rest == Len(stream) - pos
    IN  {n \in 1..MaxChunk : n <= rest} \cup {n \in {rest} : n >= 1}

SetSession(m) ==
    /\ state' = m.state
    /\ buffer' = m.buffer
    /\ contentBuffer' = m.contentBuffer
    /\ currentAction' = m.currentAction

\* what a processChunk call that started from log evs and text out leaves
Observed(m) ==
    /\ SetSession(m)
    /\ log' = log \o SelectSeq(m.log, NotText)
    /\ textOut' = textOut \o ConcatContent(SelectSeq(m.log, IsText))

NextChunk(n) == SubSeq(stream, pos + 1, pos + n)

\* the reference parser after a call that left machine f
FreshOf(f) == [sess |-> SessionOf(f), log |-> fresh.log \o SelectSeq(f.log, NotText)]

\* the caller awaits processChunk(chunk), and the container answers every I/O;
\* the reference parser is given the chunk too, once the parser is reused
ProcessChunk(n) ==
    /\ open
    /\ calls = <<>>
    /\ \E m0 \in {Machine(Session, container, <<>>)} :
       \E m \in {ProcessChunkAwaited(m0, NextChunk(n), NoFaults)} :
           /\ Observed(m)
           /\ lastText' = TextShape(m.log)
    /\ \E f0 \in {Machine(fresh.sess, container, <<>>)} :
       \E f \in {IF finalized = 0 THEN f0
                 ELSE ProcessChunkAwaited(f0, NextChunk(n), NoFaults)} :
           fresh' = IF finalized = 0 THEN fresh ELSE FreshOf(f)
    /\ pos' = pos + n
    /\ UNCHANGED apart
    /\ UNCHANGED <<plan, stream, container, calls, finalized, open, warned>>

\* the stream ended or was aborted: the caller calls finalize()
Finalize ==
    /\ open
    /\ calls = <<>>
    /\ SetSession(FinalizeSession(Session))
    /\ finalized' = finalized + 1
    /\ open' = FALSE
    /\ warned' = IF FinalizeWarns(Session) THEN warned + 1 ELSE warned
    /\ UNCHANGED apart
    /\ UNCHANGED <<plan, stream, pos, container, calls, log, textOut, lastText, fresh>>

Next ==
    \/ \E n \in ChunkLens : ProcessChunk(n)
    \/ Finalize

\* every processChunk call is awaited, and finalize() ends the run
Spec == Init /\ [][Next]_vars

-----------------------------------------------------------------------------
(* The parser is used again after finalize().                              *)

ReusePlans == {p \in Plans : Len(p) <= 1}

InitReuse == Init /\ plan \in ReusePlans

FinalizeReuse == finalized < MaxFinalize /\ Finalize

\* the parser is given another response
NewResponse ==
    /\ ~open
    /\ plan' \in ReusePlans
    /\ stream' = Render(plan')
    /\ pos' = 0
    /\ open' = TRUE
    /\ log' = <<>>
    /\ textOut' = ""
    /\ lastText' = [count |-> 0, before |-> 0]
    /\ fresh' = NewFresh
    /\ warned' = 0
    /\ UNCHANGED apart
    /\ UNCHANGED <<container, state, buffer, contentBuffer, currentAction, calls,
                   finalized>>

NextReuse ==
    \/ \E n \in ChunkLens : ProcessChunk(n)
    \/ FinalizeReuse
    \/ NewResponse

SpecReuse == InitReuse /\ [][NextReuse]_vars

-----------------------------------------------------------------------------
(* The caller does not await processChunk: streamOpenRouter calls onChunk  *)
(* for every content delta and does not wait for what onChunk started.     *)

CallOf(m) ==
    [pc |-> m.pc, filePath |-> m.filePath, content |-> m.content,
     parts |-> m.parts, i |-> m.i]

\* the machine of a suspended call: the session as it is now, the call's locals
Resumed(c) ==
    [Machine(Session, container, <<>>) EXCEPT
        !.pc = c.pc, !.filePath = c.filePath, !.content = c.content,
        !.parts = c.parts, !.i = c.i]

RemoveAt(seq, k) == SubSeq(seq, 1, k - 1) \o SubSeq(seq, k + 1, Len(seq))

\* responses with a file action to write and at most one action after it
UnawaitedPlans ==
    ReusePlans \cup {<<FileAction("d/x", "\nhi "), a>> : a \in ActionChoices}

InitUnawaited == Init /\ plan \in UnawaitedPlans /\ container

\* onChunk(content) calls processChunk(content) and returns
CallProcessChunk(n) ==
    /\ open
    /\ Len(calls) < MaxCalls
    /\ \E m0 \in {Machine(Session, container, <<>>)} :
       \E m \in {ProcessChunkSync(m0, NextChunk(n))} :
           /\ Observed(m)
           /\ lastText' = TextShape(m.log)
           /\ calls' = IF m.pc = "done" THEN calls ELSE Append(calls, CallOf(m))
    /\ pos' = pos + n
    /\ UNCHANGED apart
    /\ UNCHANGED <<plan, stream, container, finalized, open, warned, fresh>>

\* the container answers the I/O the k-th suspended call waits for
IOAnswer(k) ==
    /\ k \in 1..Len(calls)
    /\ \E m0 \in {Resumed(calls[k])} :
       \E m \in {RunSync(IOReturn(m0, TRUE))} :
           /\ Observed(m)
           /\ calls' = IF m.pc = "done" THEN RemoveAt(calls, k)
                       ELSE [calls EXCEPT ![k] = CallOf(m)]
    /\ UNCHANGED apart
    /\ UNCHANGED <<plan, stream, pos, container, lastText, finalized, open, warned,
                   fresh>>

\* finalize() is called when the stream ends or is aborted, whatever is in flight
FinalizeUnawaited ==
    /\ open
    /\ SetSession(FinalizeSession(Session))
    /\ finalized' = finalized + 1
    /\ open' = FALSE
    /\ warned' = IF FinalizeWarns(Session) THEN warned + 1 ELSE warned
    /\ UNCHANGED apart
    /\ UNCHANGED <<plan, stream, pos, container, calls, log, textOut, lastText, fresh>>

NextUnawaited ==
    \/ \E n \in ChunkLens : CallProcessChunk(n)
    \/ \E k \in 1..MaxCalls : IOAnswer(k)
    \/ FinalizeUnawaited

SpecUnawaited == InitUnawaited /\ [][NextUnawaited]_vars

-----------------------------------------------------------------------------
(* The container makes calls fail. The reference parser is given the same  *)
(* chunks and a container that never fails.                                 *)

FaultKinds == {"mkdir", "mkdirOther", "write", "tree"}

\* what fails during one processChunk call
FaultSets == {NoFaults} \cup {{k} : k \in FaultKinds}

\* two file actions with the same path and different contents
SamePathTwice == <<FileAction("d/x", "\nhi "), FileAction("d/x", "b")>>

\* responses with a file action to write and at most one action after it
FaultPlans == UnawaitedPlans \cup {SamePathTwice}

InitFaults == plan \in FaultPlans /\ Started /\ container

ProcessChunkFaulty(n, faults) ==
    /\ open
    /\ \E m0 \in {Machine(Session, container, <<>>)} :
       \E m \in {ProcessChunkAwaited(m0, NextChunk(n), faults)} :
           /\ Observed(m)
           /\ lastText' = TextShape(m.log)
    /\ \E f0 \in {Machine(fresh.sess, container, <<>>)} :
       \E f \in {ProcessChunkAwaited(f0, NextChunk(n), NoFaults)} :
           fresh' = FreshOf(f)
    /\ pos' = pos + n
    /\ UNCHANGED apart
    /\ UNCHANGED <<plan, stream, container, calls, finalized, open, warned>>

NextFaults ==
    \/ \E n \in ChunkLens : \E faults \in FaultSets : ProcessChunkFaulty(n, faults)
    \/ Finalize

SpecFaults == InitFaults /\ [][NextFaults]_vars

-----------------------------------------------------------------------------
(* The same, with or without a container attached, for the responses that  *)
(* have a file action.                                                      *)

WrittenPlans == {p \in FaultPlans : \E k \in 1..Len(p) : p[k].type = "file"}

InitWritten == plan \in WrittenPlans /\ Started

SpecWritten == InitWritten /\ [][NextFaults]_vars

-----------------------------------------------------------------------------
(* No container is attached. The reference parser is given the same chunks *)
(* and has a container.                                                     *)

InitBare == Init /\ ~container

ProcessChunkBare(n) ==
    /\ open
    /\ \E m0 \in {Machine(Session, container, <<>>)} :
       \E m \in {ProcessChunkAwaited(m0, NextChunk(n), NoFaults)} :
           /\ Observed(m)
           /\ lastText' = TextShape(m.log)
    /\ \E f0 \in {Machine(fresh.sess, TRUE, <<>>)} :
       \E f \in {ProcessChunkAwaited(f0, NextChunk(n), NoFaults)} :
           fresh' = FreshOf(f)
    /\ pos' = pos + n
    /\ UNCHANGED apart
    /\ UNCHANGED <<plan, stream, container, calls, finalized, open, warned>>

NextBare ==
    \/ \E n \in ChunkLens : ProcessChunkBare(n)
    \/ Finalize

SpecBare == InitBare /\ [][NextBare]_vars

-----------------------------------------------------------------------------
(* Two parsers, A (the parser of the variables state, buffer, ...) and B   *)
(* (other), each given the response of its own conversation, the calls on  *)
(* A and on B in any order. The reference parser is given the chunks of A. *)

Sessions == {"A", "B"}

\* a parser class whose fields are static: every parser uses those of A
FieldsShared(id) == "A"

\* the parser whose fields a method called on parser id reads and writes:
\* state, buffer, currentAction and contentBuffer are instance fields
FieldsOf(id) == id

FieldsRead(id) == IF FieldsOf(id) = "A" THEN Session ELSE other.sess

\* the response of the conversation of B
OtherStream == Render(<<ShellAction(" ls\n")>>)

OtherChunkLens ==
    {n \in {MinOf({MaxChunk, Len(OtherStream) - other.pos})} : n >= 1}

InitTwo == plan \in ReusePlans /\ Started /\ container

SetFields(id, m) ==
    IF FieldsOf(id) = "A" THEN SetSession(m)
    ELSE UNCHANGED <<state, buffer, contentBuffer, currentAction>>

OtherAfter(id, m, n) ==
    [sess |-> IF FieldsOf(id) = "B" THEN SessionOf(m) ELSE other.sess,
     log |-> IF id = "B" THEN other.log \o SelectSeq(m.log, NotText) ELSE other.log,
     pos |-> IF id = "B" THEN other.pos + n ELSE other.pos,
     open |-> other.open]

\* "await parser.processChunk(chunk)" on parser A
ProcessChunkA(n) ==
    /\ open
    /\ \E m0 \in {Machine(FieldsRead("A"), container, <<>>)} :
       \E m \in {ProcessChunkAwaited(m0, NextChunk(n), NoFaults)} :
           /\ SetFields("A", m)
           /\ log' = log \o SelectSeq(m.log, NotText)
           /\ textOut' = textOut \o ConcatContent(SelectSeq(m.log, IsText))
           /\ lastText' = TextShape(m.log)
           /\ other' = OtherAfter("A", m, n)
    /\ \E f0 \in {Machine(fresh.sess, container, <<>>)} :
       \E f \in {ProcessChunkAwaited(f0, NextChunk(n), NoFaults)} :
           fresh' = FreshOf(f)
    /\ pos' = pos + n
    /\ UNCHANGED <<plan, stream, container, calls, finalized, open, warned,
                   router, boot, ui>>

\* "await parser.processChunk(chunk)" on parser B
ProcessChunkB(n) ==
    /\ other.open
    /\ \E m0 \in {Machine(FieldsRead("B"), container, <<>>)} :
       \E m \in {ProcessChunkAwaited(m0, SubSeq(OtherStream, other.pos + 1,
                                                other.pos + n), NoFaults)} :
           /\ SetFields("B", m)
           /\ other' = OtherAfter("B", m, n)
    /\ UNCHANGED <<plan, stream, pos, container, calls, log, textOut, lastText,
                   finalized, open, warned, fresh, router, boot, ui>>

\* parser.finalize() on parser id
TwoFinalize(id) ==
    /\ IF id = "A" THEN open ELSE other.open
    /\ IF FieldsOf(id) = "A" THEN SetSession(FinalizeSession(Session))
       ELSE UNCHANGED <<state, buffer, contentBuffer, currentAction>>
    /\ other' = [other EXCEPT
                    !.sess = IF FieldsOf(id) = "B" THEN FinalizeSession(@) ELSE @,
                    !.open = IF id = "B" THEN FALSE ELSE @]
    /\ IF id = "A"
       THEN /\ finalized' = finalized + 1
            /\ open' = FALSE
            /\ warned' = IF FinalizeWarns(FieldsRead(id)) THEN warned + 1 ELSE warned
            /\ fresh' = [fresh EXCEPT !.sess = FinalizeSession(@)]
       ELSE UNCHANGED <<finalized, open, warned, fresh>>
    /\ UNCHANGED <<plan, stream, pos, container, calls, log, textOut, lastText,
                   router, boot, ui>>

NextTwo ==
    \/ \E n \in ChunkLens : ProcessChunkA(n)
    \/ \E n \in OtherChunkLens : ProcessChunkB(n)
    \/ \E id \in Sessions : TwoFinalize(id)

SpecTwo == InitTwo /\ [][NextTwo]_vars

-----------------------------------------------------------------------------
(* streamOpenRouter: the request, the reads of the response body, the      *)
(* server-sent events in it, and the callbacks onChunk, onComplete and     *)
(* onError.                                                                 *)

ChunkSig(content) == [sig |-> "chunk", content |-> content]
CompleteSig == [sig |-> "complete", content |-> ""]
ErrorSig == [sig |-> "error", content |-> ""]

JsonHead == "{\"choices\":[{\"delta\":{\"content\":\""
JsonTail == "\"}}]}"

\* a line of the body that carries the content delta c
DataLine(c) == "data: " \o JsonHead \o c \o JsonTail \o "\n"

\* the response bodies: two deltas and the end marker; an empty delta and a
\* blank line; a body that the server cut in the middle of a line; a body
\* whose last line is complete and has no newline after it
Bodies ==
    { DataLine("ab") \o DataLine("c") \o "data: [DONE]\n",
      DataLine("") \o "\n" \o DataLine("ab"),
      DataLine("ab") \o "data: " \o JsonHead \o "c",
      DataLine("ab") \o "data: " \o JsonHead \o "c" \o JsonTail }

RECURSIVE SplitLines(_)
\* s.split('\n')
SplitLines(s) ==
    LET k == IndexOf(s, "\n")
    IN  IF k = -1 THEN <<s>>
        ELSE <<Slice(s, 0, k)>> \o SplitLines(SliceFrom(s, k + 1))

\* JSON.parse(payload).choices?.[0]?.delta?.content for the payloads of the
\* bodies: the content delta, or "" when JSON.parse throws
DeltaContent(payload) ==
    LET n == Len(payload)
        inner == SubSeq(payload, Len(JsonHead) + 1, n - Len(JsonTail))
    IN  IF /\ n >= Len(JsonHead) + Len(JsonTail)
           /\ SubSeq(payload, 1, Len(JsonHead)) = JsonHead
           /\ SubSeq(payload, n - Len(JsonTail) + 1, n) = JsonTail
           /\ ~Includes(inner, Quote)
        THEN inner
        ELSE ""

RECURSIVE DeliverLines(_, _)
\* the for loop over the complete lines: onChunk for every data line with a
\* content delta
DeliverLines(lines, signals) ==
    IF Len(lines) = 0 THEN signals
    ELSE LET trimmed == Trim(Head(lines))
             content == IF LitAt(trimmed, 1, "data: ")
                        THEN DeltaContent(SliceFrom(trimmed, Len("data: ")))
                        ELSE ""
         IN  DeliverLines(Tail(lines),
                          IF trimmed = "" \/ trimmed = "data: [DONE]" \/ content = ""
                          THEN signals
                          ELSE Append(signals, ChunkSig(content)))

\* the lengths the next read of the body can have
ReadLens ==
    LET rest == Len(router.body) - router.read
    IN  {n \in 1..MaxRead : n <= rest} \cup {n \in {rest} : n >= 1}

\* the outcomes of "await fetch(...)" and of the checks of the response
FetchOutcomes == {"http", "nobody", "throw", "abort"}

\* fetch resolves with a response that is ok and has a body
FetchResponds(body) ==
    /\ router.pc = "fetch"
    /\ router' = [router EXCEPT !.pc = "read", !.body = body]
    /\ UNCHANGED parserVars
    /\ UNCHANGED <<other, boot, ui>>

\* the response is not ok or has no body, or fetch rejects: the catch calls
\* onError, but for an AbortError
FetchFails(outcome) ==
    /\ router.pc = "fetch"
    /\ router' = [router EXCEPT
                     !.pc = "end",
                     !.signals = IF outcome = "abort" THEN @ ELSE Append(@, ErrorSig)]
    /\ UNCHANGED parserVars
    /\ UNCHANGED <<other, boot, ui>>

\* reader.read() resolves with the next n characters of the body
ReadValue(n) ==
    /\ router.pc = "read"
    /\ \E text \in {router.buffer \o SubSeq(router.body, router.read + 1,
                                             router.read + n)} :
       \E lines \in {SplitLines(text)} :
           router' = [router EXCEPT
                         !.read = @ + n,
                         !.buffer = lines[Len(lines)],
                         !.signals = DeliverLines(SubSeq(lines, 1, Len(lines) - 1), @)]
    /\ UNCHANGED parserVars
    /\ UNCHANGED <<other, boot, ui>>

\* reader.read() resolves with done, after the whole body
ReadDone ==
    /\ router.pc = "read"
    /\ router.read = Len(router.body)
    /\ router' = [router EXCEPT !.pc = "end", !.signals = Append(@, CompleteSig)]
    /\ UNCHANGED parserVars
    /\ UNCHANGED <<other, boot, ui>>

\* reader.read() rejects: the transport failed ("throw") or the AbortSignal
\* fired ("abort")
ReadFails(outcome) ==
    /\ router.pc = "read"
    /\ router' = [router EXCEPT
                     !.pc = "end",
                     !.signals = IF outcome = "abort" THEN @ ELSE Append(@, ErrorSig)]
    /\ UNCHANGED parserVars
    /\ UNCHANGED <<other, boot, ui>>

InitRouter == plan = <<>> /\ Started /\ ~container

NextRouter ==
    \/ \E body \in Bodies : FetchResponds(body)
    \/ \E outcome \in FetchOutcomes : FetchFails(outcome)
    \/ \E n \in ReadLens : ReadValue(n)
    \/ ReadDone
    \/ \E outcome \in {"throw", "abort"} : ReadFails(outcome)

SpecRouter == InitRouter /\ [][NextRouter]_vars

-----------------------------------------------------------------------------
(* bootWebContainer: the module variable webcontainerInstance, the calls   *)
(* of bootWebContainer and the promises of WebContainer.boot().            *)

\* a call suspended at "await WebContainer.boot()", on the promise of the
\* invocation numbered promise
Awaiting(promise) == [pc |-> "await", result |-> promise]
\* a call that returned instance
Returned(instance) == [pc |-> "returned", result |-> instance]
\* a call that threw
Threw == [pc |-> "threw", result |-> 0]

\* the pages: crossOriginIsolated or not
Pages == {[NewBoot EXCEPT !.isolated = b] : b \in BOOLEAN}

\* bootWebContainer() up to its return, its throw or its await
EnterBoot(b) ==
    IF b.instance # 0
    THEN [b EXCEPT !.calls = Append(@, Returned(b.instance))]
    ELSE IF ~b.isolated
    THEN [b EXCEPT !.calls = Append(@, Threw)]
    ELSE [b EXCEPT !.boots = @ + 1, !.calls = Append(@, Awaiting(b.boots + 1))]

\* the promise awaited by call k resolves with the instance of its
\* invocation: "webcontainerInstance = await WebContainer.boot(); return"
ResumeBoot(b, k) ==
    [b EXCEPT !.instance = b.calls[k].result,
              !.calls[k] = Returned(b.calls[k].result)]

CallBoot ==
    /\ Len(boot.calls) < MaxBootCalls
    /\ boot' = EnterBoot(boot)
    /\ UNCHANGED parserVars
    /\ UNCHANGED <<other, router, ui>>

BootResolves(k) ==
    /\ boot.calls[k].pc = "await"
    /\ boot' = ResumeBoot(boot, k)
    /\ UNCHANGED parserVars
    /\ UNCHANGED <<other, router, ui>>

\* the promise awaited by call k rejects: the call throws with the module
\* variable as it is
BootRejects(k) ==
    /\ boot.calls[k].pc = "await"
    /\ boot' = [boot EXCEPT !.calls[k] = Threw]
    /\ UNCHANGED parserVars
    /\ UNCHANGED <<other, router, ui>>

InitBoot == plan = <<>> /\ StartedOnPage /\ ~container /\ boot \in Pages

NextBoot ==
    \/ CallBoot
    \/ \E k \in 1..Len(boot.calls) : BootResolves(k)
    \/ \E k \in 1..Len(boot.calls) : BootRejects(k)

SpecBoot == InitBoot /\ [][NextBoot]_vars

-----------------------------------------------------------------------------
(* Responses given as text: tags inside the content of an action, closing  *)
(* tags of artifacts that were never opened, artifacts one after another,  *)
(* opening tags the parser does not recognize, files in nested             *)
(* directories.                                                            *)

ArtifactOf(id, title, p) ==
    "<boltArtifact id=" \o Quote \o id \o Quote \o " title=" \o Quote \o title
        \o Quote \o ">\n" \o RenderActions(p) \o ArtifactCloseTag

\* content that holds the closing tag of an artifact, the opening tag of an
\* artifact and the opening tags of a shell and of a file action
TaggedBody ==
    " a" \o ArtifactCloseTag \o ArtifactOpenTag
        \o ActionOpenTag(ShellAction("")) \o ActionOpenTag(FileAction("z", ""))
        \o "b\n"

TaggedTexts ==
    { Render(<<ShellAction(TaggedBody)>>), Render(<<FileAction("y", TaggedBody)>>) }

\* closing tags of artifacts with no artifact open: two in a row, and two
\* after an artifact that was closed
StrayTexts ==
    { "ok " \o ArtifactCloseTag \o ArtifactCloseTag \o " x",
      Render(<<>>) \o "\n" \o ArtifactCloseTag \o " x " \o ArtifactCloseTag }

Artifact(id, title, p) == [id |-> id, title |-> title, p |-> p]

\* two artifacts one after another: with an action each, and the first one
\* empty
Serials ==
    { <<Artifact("a1", "T", <<ShellAction(" ls\n")>>),
        Artifact("a2", "U", <<FileAction("d/x", "\nhi ")>>)>>,
      <<Artifact("a1", "T", <<FileAction("d/x", "\nhi ")>>),
        Artifact("a2", "U", <<ShellAction(" ls\n")>>)>>,
      <<Artifact("a1", "T", <<>>),
        Artifact("a2", "U", <<ShellAction(" ls\n")>>)>> }

RECURSIVE RenderSerial(_)
RenderSerial(arts) ==
    IF Len(arts) = 0 THEN ""
    ELSE ArtifactOf(Head(arts).id, Head(arts).title, Head(arts).p) \o "\n"
             \o RenderSerial(Tail(arts))

SerialTexts == {"ok " \o RenderSerial(arts) : arts \in Serials}

\* opening tags that match neither regular expression of handleInArtifact:
\* a file action without filePath, an action of an unknown type; each with
\* content and a closing tag
MalformedTags ==
    { "<boltAction type=" \o Quote \o "file" \o Quote \o ">",
      "<boltAction type=" \o Quote \o "foo" \o Quote \o ">" }

\* the well-formed actions that follow the malformed one
Followers ==
    { <<ShellAction(" ls\n")>>, <<FileAction("d/x", "\nhi ")>>,
      <<ShellAction(" ls\n"), FileAction("d/x", "\nhi ")>> }

MalformedText(tag, p) ==
    Prologue \o tag \o "x" \o closeTag \o "\n" \o RenderActions(p)
        \o ArtifactCloseTag

MalformedTexts == {MalformedText(tag, p) : tag \in MalformedTags, p \in Followers}

\* a file two directories down, followed by a file in the root directory
NestedTexts ==
    { Render(<<FileAction("a/b/x", "hi"), FileAction("y", "hi")>>) }

Texts ==
    TaggedTexts \cup StrayTexts \cup SerialTexts \cup MalformedTexts
        \cup NestedTexts

InitText == plan = <<>> /\ stream \in Texts /\ StartedSession /\ boot = NewBoot

SpecText == InitText /\ [][Next]_vars

-----------------------------------------------------------------------------
(* The loop of processBuffer pass by pass: one awaited processChunk call   *)
(* at a time, the fields of the parser after every pass of the loop and    *)
(* after every answer of the container.                                    *)

PassTexts == StrayTexts \cup SerialTexts \cup MalformedTexts

InitPasses ==
    plan = <<>> /\ stream \in PassTexts /\ StartedSession /\ boot = NewBoot

\* the call in progress, if any
InCall == calls # <<>>
ThisCall == Resumed(calls[1])

\* what a step of the call in progress leaves
Stepped(m) ==
    /\ Observed(m)
    /\ calls' = <<CallOf(m)>>
    /\ UNCHANGED apart
    /\ UNCHANGED <<plan, stream, pos, container, lastText, finalized, open, warned,
                   fresh>>

\* processChunk up to the call of processBuffer
EnterChunk(n) ==
    /\ open
    /\ ~InCall
    /\ \E m0 \in {Machine(Session, container, <<>>)} :
       \E m \in {OnText(AppendChunk(m0, NextChunk(n)), NextChunk(n))} :
           /\ Observed(m)
           /\ lastText' = TextShape(m.log)
           /\ calls' = <<CallOf(m)>>
    /\ pos' = pos + n
    /\ UNCHANGED apart
    /\ UNCHANGED <<plan, stream, container, finalized, open, warned, fresh>>

\* one pass of the loop, up to its return or to its first await of the
\* container
OnePass ==
    /\ InCall
    /\ calls[1].pc = "loop"
    /\ \E m \in {Pass(ThisCall)} : Stepped(m)

\* the container answers the I/O the pass waits for
IOAnswered ==
    /\ InCall
    /\ calls[1].pc \in {"mkdir", "write", "tree"}
    /\ \E m \in {IOReturn(ThisCall, TRUE)} : Stepped(m)

\* a handler returned false: processBuffer and processChunk return
ChunkReturns ==
    /\ InCall
    /\ calls[1].pc = "done"
    /\ calls' = <<>>
    /\ UNCHANGED apart
    /\ UNCHANGED <<plan, stream, pos, container, state, buffer, contentBuffer,
                   currentAction, log, textOut, lastText, finalized, open, warned,
                   fresh>>

\* a pass of the loop begins in this state: OnePass is enabled
AtPass == InCall /\ calls[1].pc = "loop"

NextPasses ==
    \/ \E n \in ChunkLens : EnterChunk(n)
    \/ OnePass
    \/ IOAnswered
    \/ ChunkReturns
    \/ Finalize

\* the event loop runs the call in progress and the container answers. The
\* first conjunct of the fairness condition is WF_vars(OnePass) written out,
\* AtPass being the states in which OnePass is enabled
SpecPasses ==
    /\ InitPasses
    /\ [][NextPasses]_vars
    /\ ([]<>(~AtPass) \/ []<><<OnePass>>_vars)
    /\ WF_vars(IOAnswered)
    /\ WF_vars(ChunkReturns)

-----------------------------------------------------------------------------
(* The chat store: any sequence of its message and streaming actions.      *)

Roles == {"user", "assistant"}

\* the texts given to addMessage, updateMessage and appendToMessage
Contents == {"", "a"}

\* generateId(): an id no message has yet
GenerateId(c) == c.ids + 1

\* addMessage(message): the message gets a new id and is put last; the
\* result is the id
AddMessage(c, role, content, streaming) ==
    [c EXCEPT
        !.ids = GenerateId(c),
        !.messages = Append(@, [id |-> GenerateId(c), role |-> role,
                                content |-> content, isStreaming |-> streaming])]

\* updateMessage(id, content)
UpdateMessage(c, id, content) ==
    [c EXCEPT !.messages =
        [k \in 1..Len(@) |->
            IF @[k].id = id
            THEN [@[k] EXCEPT !.content = content, !.isStreaming = FALSE]
            ELSE @[k]]]

\* appendToMessage(id, chunk)
AppendToMessage(c, id, chunk) ==
    [c EXCEPT !.messages =
        [k \in 1..Len(@) |->
            IF @[k].id = id THEN [@[k] EXCEPT !.content = @ \o chunk] ELSE @[k]]]

\* clearMessages()
ClearMessages(c) == [c EXCEPT !.messages = <<>>]

\* startStreaming(): an id for the stream, which is not used, then the
\* placeholder message, whose id becomes currentStreamId
StartStreaming(c) ==
    LET c1 == [c EXCEPT !.ids = GenerateId(c)]
        c2 == AddMessage(c1, "assistant", "", TRUE)
    IN  [c2 EXCEPT !.isStreaming = TRUE, !.currentStreamId = c2.ids]

\* stopStreaming()
StopStreaming(c) ==
    IF c.currentStreamId # NoId
    THEN [c EXCEPT
            !.isStreaming = FALSE,
            !.currentStreamId = NoId,
            !.messages =
                [k \in 1..Len(@) |->
                    IF @[k].id = c.currentStreamId
                    THEN [@[k] EXCEPT !.isStreaming = FALSE]
                    ELSE @[k]]]
    ELSE [c EXCEPT !.isStreaming = FALSE, !.currentStreamId = NoId]

\* what the actions of the chat store leave alone
chatFrame == <<parserVars, other, router, boot, store, editor, header, did>>

\* the ids of the messages there are or were
Ids == 1..chat.ids

\* addMessage({role, content}): a message given without the isStreaming
\* flag, which is then not true
CallAddMessage(role, content) ==
    /\ chat.ids < MaxIds
    /\ chat' = AddMessage(chat, role, content, FALSE)
    /\ UNCHANGED chatFrame

CallUpdateMessage(id, content) ==
    /\ chat' = UpdateMessage(chat, id, content)
    /\ UNCHANGED chatFrame

CallAppendToMessage(id, chunk) ==
    /\ \A k \in 1..Len(chat.messages) :
           chat.messages[k].id = id =>
               Len(chat.messages[k].content) + Len(chunk) <= MaxContent
    /\ chat' = AppendToMessage(chat, id, chunk)
    /\ UNCHANGED chatFrame

CallClearMessages ==
    /\ chat' = ClearMessages(chat)
    /\ UNCHANGED chatFrame

CallStartStreaming ==
    /\ chat.ids + 2 <= MaxIds
    /\ chat' = StartStreaming(chat)
    /\ UNCHANGED chatFrame

CallStopStreaming ==
    /\ chat' = StopStreaming(chat)
    /\ UNCHANGED chatFrame

InitChat == plan = <<>> /\ Started /\ ~container

NextChat ==
    \/ \E role \in Roles : \E content \in Contents : CallAddMessage(role, content)
    \/ \E id \in Ids : \E content \in Contents : CallUpdateMessage(id, content)
    \/ \E id \in Ids : \E chunk \in Contents : CallAppendToMessage(id, chunk)
    \/ CallClearMessages
    \/ CallStartStreaming
    \/ CallStopStreaming

SpecChat == InitChat /\ [][NextChat]_vars

-----------------------------------------------------------------------------
(* The container store: any sequence of its file actions.                  *)

\* the paths of the files of the project and what a file can hold
Paths == {"a", "b", "c"}
FileContents == {"", "x", "y"}

\* a file as FileTreeItem.handleClick gives it to openFile
FileOf(path, content) == [path |-> path, content |-> content, isDirty |-> FALSE]

\* openFiles.find(f => f.path === path), or NoFile
Find(files, path) ==
    LET at == {k \in 1..Len(files) : files[k].path = path}
    IN  IF at = {} THEN NoFile ELSE files[MinOf(at)]

\* an openFile that does not look for the path among the open files
OpenFileAgain(s, file) ==
    [s EXCEPT !.openFiles = Append(@, file), !.activeFile = file]

\* openFile(file)
OpenFile(s, file) ==
    LET exists == Find(s.openFiles, file.path)
    IN  IF exists = NoFile
        THEN [s EXCEPT !.openFiles = Append(@, file), !.activeFile = file]
        ELSE [s EXCEPT !.activeFile = exists]

\* closeFile(path)
CloseFile(s, path) ==
    LET filtered == SelectSeq(s.openFiles, LAMBDA f : f.path # path)
        newActive ==
            IF s.activeFile # NoFile /\ s.activeFile.path = path
            THEN IF Len(filtered) > 0 THEN filtered[Len(filtered)] ELSE NoFile
            ELSE s.activeFile
    IN  [s EXCEPT !.openFiles = filtered, !.activeFile = newActive]

\* updateFileContent(path, content)
UpdateFileContent(s, path, content) ==
    [s EXCEPT
        !.openFiles =
            [k \in 1..Len(@) |->
                IF @[k].path = path
                THEN [@[k] EXCEPT !.content = content, !.isDirty = TRUE]
                ELSE @[k]],
        !.activeFile =
            IF @ # NoFile /\ @.path = path
            THEN [@ EXCEPT !.content = content, !.isDirty = TRUE]
            ELSE @]

\* markFileSaved(path)
MarkFileSaved(s, path) ==
    [s EXCEPT
        !.openFiles =
            [k \in 1..Len(@) |->
                IF @[k].path = path THEN [@[k] EXCEPT !.isDirty = FALSE] ELSE @[k]],
        !.activeFile =
            IF @ # NoFile /\ @.path = path THEN [@ EXCEPT !.isDirty = FALSE] ELSE @]

\* what the actions of the container store leave alone
storeFrame == <<parserVars, other, router, boot, chat, editor, header>>

CallOpenFile(path, content) ==
    /\ store' = OpenFile(store, FileOf(path, content))
    /\ did' = "openFile"
    /\ UNCHANGED storeFrame

CallCloseFile(path) ==
    /\ store' = CloseFile(store, path)
    /\ did' = "closeFile"
    /\ UNCHANGED storeFrame

CallUpdateFileContent(path, content) ==
    /\ store' = UpdateFileContent(store, path, content)
    /\ did' = "updateFileContent"
    /\ UNCHANGED storeFrame

CallMarkFileSaved(path) ==
    /\ store' = MarkFileSaved(store, path)
    /\ did' = "markFileSaved"
    /\ UNCHANGED storeFrame

InitStore == plan = <<>> /\ Started /\ ~container

NextStore ==
    \/ \E path \in Paths : \E content \in FileContents : CallOpenFile(path, content)
    \/ \E path \in Paths : CallCloseFile(path)
    \/ \E path \in Paths : \E content \in FileContents :
           CallUpdateFileContent(path, content)
    \/ \E path \in Paths : CallMarkFileSaved(path)

SpecStore == InitStore /\ [][NextStore]_vars

-----------------------------------------------------------------------------
(* handleBoot of the header: boot, mount, install, start the dev server.   *)

\* setStatus(status)
SetStatus(s, status) == [s EXCEPT !.status = status]

\* setError(error): status: error ? 'error' : 'idle'
SetError(s, error) ==
    [s EXCEPT !.error = error,
              !.status = IF error # NoError /\ error # "" THEN "error" ELSE "idle"]

\* setPreviewUrl(url)
SetPreviewUrl(s, url) == [s EXCEPT !.previewUrl = url]

\* setContainer(container)
SetContainer(s) == [s EXCEPT !.container = TRUE]

\* what a failing step throws: an Error with a message, an Error without
\* one, a value that is not an Error
Thrown ==
    { [isError |-> TRUE, message |-> "boom"],
      [isError |-> TRUE, message |-> ""],
      [isError |-> FALSE, message |-> ""] }

\* error instanceof Error ? error.message : 'Unknown error'
MessageOf(thrown) == IF thrown.isError THEN thrown.message ELSE "Unknown error"

\* the exit codes of npm install
ExitCodes == {0, 1}

\* the urls the container gives to the 'server-ready' listener
ServerUrls == {"http://localhost:5173", "http://localhost:5174"}

\* the message of the error bootWebContainer throws on a page that is not
\* cross-origin isolated
NotIsolated == "WebContainers require cross-origin isolation."

\* the bootWebContainer call of the handleBoot call in progress
BootCall == boot.calls[Len(boot.calls)]

\* the call goes on to the next await: the status it sets and the call it
\* makes on the container
Proceeds(h, pc, status, call) ==
    [h EXCEPT !.pc = pc, !.trail = Append(@, status), !.ran = Append(@, call)]

\* the catch of handleBoot: setStatus('error'), setError(message)
Catches(h, message) ==
    [h EXCEPT
        !.pc = "failed",
        !.failed = h.pc,
        !.trail = @ \o <<"error", SetError(store, message).status>>]

\* what handleBoot and the server-ready callback leave alone
headerFrame == <<parserVars, other, router, chat, editor, did>>

\* the button is shown while the status is neither ready nor one of the
\* loading ones. handleBoot up to "await bootWebContainer()"
CallHandleBoot ==
    /\ header.pc \in {"idle", "failed"}
    /\ store.status \in {"idle", "error"}
    /\ header.calls < MaxHandleBoot
    /\ boot' = EnterBoot(boot)
    /\ store' = SetStatus(SetError(store, NoError), "booting")
    /\ header' = [header EXCEPT
                     !.pc = "boot", !.calls = @ + 1, !.failed = "",
                     !.exitCode = -1,
                     !.trail = <<"idle", "booting">>,
                     !.ran = <<"bootWebContainer">>]
    /\ UNCHANGED headerFrame

\* bootWebContainer threw: the page is not cross-origin isolated
BootThrows ==
    /\ header.pc = "boot"
    /\ BootCall.pc = "threw"
    /\ store' = SetError(SetStatus(store, "error"), NotIsolated)
    /\ header' = Catches(header, NotIsolated)
    /\ UNCHANGED boot
    /\ UNCHANGED headerFrame

\* WebContainer.boot() rejects
BootFails(thrown) ==
    /\ header.pc = "boot"
    /\ BootCall.pc = "await"
    /\ boot' = [boot EXCEPT !.calls[Len(boot.calls)] = Threw]
    /\ store' = SetError(SetStatus(store, "error"), MessageOf(thrown))
    /\ header' = Catches(header, MessageOf(thrown))
    /\ UNCHANGED headerFrame

\* the step the call awaits throws or rejects
StepFails(thrown) ==
    /\ header.pc \in {"mount", "installSpawn", "installExit", "devSpawn"}
    /\ store' = SetError(SetStatus(store, "error"), MessageOf(thrown))
    /\ header' = Catches(header, MessageOf(thrown))
    /\ UNCHANGED boot
    /\ UNCHANGED headerFrame

\* the instance a bootWebContainer call gives: the one there is, or the one
\* its WebContainer.boot() resolves with
BootResumed(b) ==
    IF b.calls[Len(b.calls)].pc = "await" THEN ResumeBoot(b, Len(b.calls)) ELSE b

\* bootWebContainer resolves: setContainer, setStatus('mounting'), mountFiles
BootReturns ==
    /\ header.pc = "boot"
    /\ BootCall.pc \in {"await", "returned"}
    /\ boot' = BootResumed(boot)
    /\ store' = SetStatus(SetContainer(store), "mounting")
    /\ header' = Proceeds(header, "mount", "mounting", "mount")
    /\ UNCHANGED headerFrame

\* container.mount resolves: setStatus('installing'), installDependencies up
\* to "await container.spawn('npm', ['install', ...])"
MountReturns ==
    /\ header.pc = "mount"
    /\ store' = SetStatus(store, "installing")
    /\ header' = Proceeds(header, "installSpawn", "installing", "spawn npm install")
    /\ UNCHANGED boot
    /\ UNCHANGED headerFrame

\* the spawn resolves: "await installProcess.exit"
InstallSpawned ==
    /\ header.pc = "installSpawn"
    /\ header' = [header EXCEPT !.pc = "installExit"]
    /\ UNCHANGED store
    /\ UNCHANGED boot
    /\ UNCHANGED headerFrame

\* npm install exits: with 0, setStatus('starting') and startDevServer up to
\* "await container.spawn('npm', ['run', 'dev'])"; otherwise
\* installDependencies returns false and handleBoot throws
InstallExits(exitCode) ==
    /\ header.pc = "installExit"
    /\ IF exitCode = 0
       THEN /\ store' = SetStatus(store, "starting")
            /\ header' = Proceeds([header EXCEPT !.exitCode = exitCode],
                                  "devSpawn", "starting", "spawn npm run dev")
       ELSE /\ store' = SetError(SetStatus(store, "error"),
                                 "Failed to install dependencies")
            /\ header' = Catches([header EXCEPT !.exitCode = exitCode],
                                 "Failed to install dependencies")
    /\ UNCHANGED boot
    /\ UNCHANGED headerFrame

\* the spawn of the dev server resolves: the listener of 'server-ready' is
\* registered and handleBoot returns
DevServerSpawned ==
    /\ header.pc = "devSpawn"
    /\ header' = [header EXCEPT !.pc = "returned", !.listening = TRUE]
    /\ UNCHANGED store
    /\ UNCHANGED boot
    /\ UNCHANGED headerFrame

\* the container emits 'server-ready': setPreviewUrl(url), setStatus('ready')
ServerReady(url) ==
    /\ header.listening
    /\ store.status # "ready"
    /\ store' = SetStatus(SetPreviewUrl(store, url), "ready")
    /\ header' = [header EXCEPT !.trail = Append(@, "ready")]
    /\ UNCHANGED boot
    /\ UNCHANGED headerFrame

InitHeader == plan = <<>> /\ StartedOnPage /\ ~container /\ boot \in Pages

NextHeader ==
    \/ CallHandleBoot
    \/ BootThrows
    \/ \E thrown \in Thrown : BootFails(thrown)
    \/ \E thrown \in Thrown : StepFails(thrown)
    \/ BootReturns
    \/ MountReturns
    \/ InstallSpawned
    \/ \E exitCode \in ExitCodes : InstallExits(exitCode)
    \/ DevServerSpawned
    \/ \E url \in ServerUrls : ServerReady(url)

SpecHeader == InitHeader /\ [][NextHeader]_vars

-----------------------------------------------------------------------------
(* The code editor: handleEditorChange, the debounced writeToContainer and *)
(* the tabs, with the container up.                                         *)

\* setActiveFile(file)
SetActiveFile(s, file) == [s EXCEPT !.activeFile = file]

\* the files the user opens and the texts the user leaves in the editor
EditedPaths == {"a", "b"}
EditedValues == {"x", "y"}

\* the paths of the open files
OpenPaths == {store.openFiles[k].path : k \in 1..Len(store.openFiles)}

\* what the handlers of the editor leave alone
editorFrame == <<parserVars, other, router, boot, chat, header>>

\* FileTreeItem.handleClick on a file: openFile with the content the file
\* has in the container
ClickFile(path) ==
    /\ store' = OpenFile(store, FileOf(path, editor.disk[path]))
    /\ did' = "openFile"
    /\ UNCHANGED editor
    /\ UNCHANGED editorFrame

\* handleTabClick(file), file being one of openFiles
HandleTabClick(k) ==
    /\ store' = SetActiveFile(store, store.openFiles[k])
    /\ did' = "setActiveFile"
    /\ UNCHANGED editor
    /\ UNCHANGED editorFrame

\* handleTabClose(e, path)
HandleTabClose(path) ==
    /\ store' = CloseFile(store, path)
    /\ did' = "closeFile"
    /\ UNCHANGED editor
    /\ UNCHANGED editorFrame

\* handleEditorChange(value): updateFileContent, then the debounced
\* writeToContainer: clearTimeout and setTimeout with the new arguments
HandleEditorChange(value) ==
    /\ store.activeFile # NoFile
    /\ editor.edits < MaxEdits
    /\ store' = UpdateFileContent(store, store.activeFile.path, value)
    /\ editor' = [editor EXCEPT
                     !.timer = [path |-> store.activeFile.path, content |-> value],
                     !.edits = @ + 1]
    /\ did' = "updateFileContent"
    /\ UNCHANGED editorFrame

\* the timeout fires: writeToContainer up to "await container.fs.writeFile"
TimerFires ==
    /\ editor.timer # NoTimer
    /\ editor' = [editor EXCEPT
                     !.timer = NoTimer,
                     !.writes = IF store.container THEN Append(@, editor.timer) ELSE @]
    /\ UNCHANGED <<store, did>>
    /\ UNCHANGED editorFrame

\* the oldest write in flight resolves: the file has the content written,
\* and markFileSaved(path)
WriteResolves ==
    /\ editor.writes # <<>>
    /\ store' = MarkFileSaved(store, Head(editor.writes).path)
    /\ editor' = [editor EXCEPT
                     !.writes = Tail(@),
                     !.disk[Head(editor.writes).path] = Head(editor.writes).content]
    /\ did' = "markFileSaved"
    /\ UNCHANGED editorFrame

\* the oldest write in flight rejects: the catch reports it on the terminal
WriteRejects ==
    /\ editor.writes # <<>>
    /\ editor' = [editor EXCEPT !.writes = Tail(@)]
    /\ UNCHANGED <<store, did>>
    /\ UNCHANGED editorFrame

InitEditor ==
    /\ plan = <<>>
    /\ stream = Render(plan)
    /\ StartedBare
    /\ boot = NewBoot
    /\ store = ReadyStore
    /\ ~container

NextEditor ==
    \/ \E path \in EditedPaths : ClickFile(path)
    \/ \E k \in 1..Len(store.openFiles) : HandleTabClick(k)
    \/ \E path \in OpenPaths : HandleTabClose(path)
    \/ \E value \in EditedValues : HandleEditorChange(value)
    \/ TimerFires
    \/ WriteResolves
    \/ WriteRejects

SpecEditor == InitEditor /\ [][NextEditor]_vars

-----------------------------------------------------------------------------
(* Responses whose first action has no content after trimming.             *)

EmptyAction == FileAction("y", " ")

AfterEmptyPlans == {<<EmptyAction>> \o q : q \in [1..MaxActions -> ActionChoices]}

InitAfterEmpty == plan \in AfterEmptyPlans /\ Started

SpecAfterEmpty == InitAfterEmpty /\ [][Next]_vars

-----------------------------------------------------------------------------
(* What a response asks for, read off the plan it was rendered from.       *)

\* the response up to the line break that follows the k-th action
RenderPrefix(p, k) == Prologue \o RenderActions(SubSeq(p, 1, k))

\* number of characters of the response up to the last character of the
\* opening delimiter and of the closing delimiter of the k-th action
OpenEnd(p, k) == Len(RenderPrefix(p, k - 1)) + Len(ActionOpenTag(p[k]))
CloseEnd(p, k) == Len(RenderPrefix(p, k)) - 1
\* number of characters of the response before its k-th closing delimiter
CloseStart(p, k) == CloseEnd(p, k) - Len(closeTag)

\* the actions whose closing delimiter lies in the first n characters
Closed(p, n) == {k \in 1..Len(p) : CloseEnd(p, k) <= n}

\* the Action the k-th action of the plan is to be dispatched as
ExpectedAction(a) == ActionEndEv(a.type, a.filePath, Trim(a.body))

HasContent(e) == e.content # ""

\* the Actions to dispatch once n characters were received, in document order
ExpectedEnds(p, n) ==
    SelectSeq([k \in 1..Cardinality(Closed(p, n)) |-> ExpectedAction(p[k])],
              HasContent)

IsActionEnd(e) == e.ev = "actionEnd"
ActionEnds(evs) == SelectSeq(evs, IsActionEnd)

\* the events and container calls of a new parser given s as a single chunk
WholeLog(s) ==
    SelectSeq(ProcessChunkAwaited(Machine(NewSession, container, <<>>), s,
                                  NoFaults).log,
              NotText)

Count(evs, e) == Cardinality({k \in 1..Len(evs) : evs[k] = e})

-----------------------------------------------------------------------------
(* The claims.                                                             *)

\* C1: once the whole response was delivered, in whatever chunks, the
\* sequence of Actions dispatched through onActionEnd is the one obtained by
\* feeding the whole response as a single chunk.
C1_ChunkingEquivalence ==
    pos = Len(stream) => ActionEnds(log) = ActionEnds(WholeLog(stream))

\* C2: in every run the Actions dispatched so far are exactly the actions
\* whose closing delimiter lies in the stream received so far, in the order of
\* these delimiters: none is dispatched out of order and none is skipped.
C2_DispatchInCloseOrder ==
    ActionEnds(log) = ExpectedEnds(plan, pos)

\* C3: every action with non-empty trimmed content whose closing delimiter
\* was received has produced its side effect exactly once: one onActionEnd,
\* and one fs.writeFile (file action, container attached) or one
\* onShellCommand (shell action).
C3_ExactlyOnce ==
    \A k \in Closed(plan, pos) :
        LET a == plan[k]
            e == ExpectedAction(a)
            n == Count(ExpectedEnds(plan, pos), e)
        IN  HasContent(e) =>
                /\ Count(log, e) = n
                /\ (a.type = "file" /\ container) =>
                       Count(log, WriteFileCall(e.filePath, e.content)) = n
                /\ a.type = "shell" => Count(log, ShellCommandEv(e.content)) = n

RECURSIVE IsSubseq(_, _)
\* a is b with some elements left out
IsSubseq(a, b) ==
    IF Len(a) = 0 THEN TRUE
    ELSE IF Len(b) = 0 THEN FALSE
    ELSE IF Head(a) = Head(b) THEN IsSubseq(Tail(a), Tail(b))
    ELSE IsSubseq(a, Tail(b))

IsWriteFile(e) == e.ev = "fs.writeFile"
IsShellCommand(e) == e.ev = "shellCommand"
IsDispatch(e) == IsActionEnd(e) \/ IsWriteFile(e) \/ IsShellCommand(e)

\* the Action a dispatch event or call is about
AsAction(e) ==
    IF IsShellCommand(e) THEN ActionEndEv("shell", "", e.content)
    ELSE ActionEndEv(IF e.filePath = "" THEN "shell" ELSE "file", e.filePath, e.content)

AsActions(evs) == [k \in 1..Len(evs) |-> AsAction(evs[k])]

\* the k-th action was opened but its closing delimiter is not complete
IsOpenAction(p, k, n) == OpenEnd(p, k) <= n /\ n < CloseEnd(p, k)

\* C4: what was dispatched (onActionEnd, fs.writeFile, onShellCommand) is,
\* in order, about actions whose complete closing delimiter was received,
\* with exactly the trimmed text between the opening and the closing
\* delimiter as content; and finalize() dispatches nothing.
C4_OnlyClosedActions ==
    /\ [](/\ IsSubseq(ActionEnds(log), ExpectedEnds(plan, pos))
          /\ IsSubseq(AsActions(SelectSeq(log, IsWriteFile)), ExpectedEnds(plan, pos))
          /\ IsSubseq(AsActions(SelectSeq(log, IsShellCommand)),
                      ExpectedEnds(plan, pos)))
    /\ [][(open /\ ~open') => log' = log]_vars

\* finalize() was called on an open action, after another was dispatched
C4_Witness ==
    /\ ~open
    /\ finalized = 1
    /\ Len(ActionEnds(log)) = 1
    /\ \E k \in 1..Len(plan) : IsOpenAction(plan, k, pos) /\ pos > OpenEnd(plan, k)

\* a chunk boundary lies inside the closing delimiter of the k-th action
InsideClose(p, k, n) == CloseStart(p, k) < n /\ n < CloseEnd(p, k)

\* the number of dispatch events and calls of one action
NumDispatch(a) == IF a.type = "file" /\ ~container THEN 1 ELSE 2

\* C5: when the closing delimiter of an action is split across chunks, the
\* part of it received so far is withheld in the buffer and never moved to
\* the content; and when the rest of it arrives the delimiter is recognized:
\* the action is dispatched with the trimmed text before the delimiter.
C5_SplitCloseTag ==
    /\ [](\A k \in 1..Len(plan) :
              (open /\ InsideClose(plan, k, pos)) =>
                  /\ state = IF plan[k].type = "file" THEN "IN_FILE_ACTION"
                             ELSE "IN_SHELL_ACTION"
                  /\ contentBuffer \o buffer = SubSeq(stream, OpenEnd(plan, k) + 1, pos)
                  /\ Len(contentBuffer) <= Len(plan[k].body))
    /\ [][\A k \in 1..Len(plan) :
              (InsideClose(plan, k, pos) /\ pos' >= CloseEnd(plan, k)
                    /\ HasContent(ExpectedAction(plan[k]))) =>
                  LET d == SelectSeq(SubSeq(log', Len(log) + 1, Len(log')), IsDispatch)
                      n == NumDispatch(plan[k])
                  IN  /\ Len(d) >= n
                      /\ \A j \in 1..n : AsAction(d[j]) = ExpectedAction(plan[k])
                      /\ IsActionEnd(d[n])]_vars

\* twelve characters of a closing delimiter are withheld in the buffer while
\* the content before them was moved to the content buffer
C5_Witness ==
    \E k \in 1..Len(plan) :
        /\ open
        /\ pos = CloseEnd(plan, k) - 1
        /\ state = "IN_FILE_ACTION"
        /\ contentBuffer # ""
        /\ Len(buffer) >= Len(closeTag) - 1
        /\ SubSeq(buffer, Len(buffer) - Len(closeTag) + 2, Len(buffer))
               = SubSeq(closeTag, 1, Len(closeTag) - 1)

\* C8: every chunk is forwarded to onText exactly once, unchanged, in arrival
\* order and in every parser state, before any other callback its
\* processing fires; the concatenation of the onText arguments is the
\* concatenation of the chunks received.
C8_TextForwarded ==
    /\ textOut = SubSeq(stream, 1, pos)
    /\ pos > 0 => lastText = [count |-> 1, before |-> 0]

\* a chunk was forwarded while the parser was inside a file action, and its
\* processing dispatched the action
C8_Witness ==
    /\ pos > 0
    /\ state = "IN_ARTIFACT"
    /\ Len(ActionEnds(log)) = 1
    /\ textOut = SubSeq(stream, 1, pos)
    /\ lastText.count = 1

\* C6: while a processChunk call waits for the container (ensureDirectory,
\* writeFile, the file-tree refresh), a processChunk call for the next chunk
\* leaves state, buffer, contentBuffer and currentAction as they are, also
\* when the caller does not await processChunk.
C6_ChunksSerialized ==
    [][(calls # <<>> /\ pos' > pos) =>
           UNCHANGED <<state, buffer, contentBuffer, currentAction>>]_vars

\* the events and calls about the file path
About(evs, filePath) ==
    SelectSeq(evs, LAMBDA e : e.filePath = filePath /\ e.ev # "actionStart")

\* C7: an action whose trimmed content is empty is never dispatched (no
\* writeFile, no mkdir, no onActionEnd), the parser consumes its closing
\* delimiter and is back in IN_ARTIFACT, and every later action of the
\* response is dispatched as usual.
C7_EmptyActionSkipped ==
    /\ About(log, EmptyAction.filePath) = <<>>
    /\ (open /\ CloseEnd(plan, 1) <= pos /\ pos <= Len(RenderPrefix(plan, 1)))
           => state = "IN_ARTIFACT"
    /\ ActionEnds(log) = ExpectedEnds(plan, pos)

FileThenShell == <<FileAction("d/x", "\nhi "), ShellAction(" ls\n")>>

IsObserved(e) ==
    e.ev \in {"artifactStart", "artifactEnd", "actionEnd", "fileWritten",
              "shellCommand", "error"}

\* C9: one file action followed by one shell action, a container attached,
\* any chunking: the observer events other than raw text and action-start
\* are artifact-start, action-end(file), file-written, action-end(shell),
\* shell-command, artifact-end, once each and in this order.
C9_EventOrder ==
    (plan = FileThenShell /\ container /\ pos = Len(stream)) =>
        SelectSeq(log, IsObserved)
            = << ArtifactStartEv("a1", "T"),
                 ExpectedAction(plan[1]),
                 FileWrittenEv(plan[1].filePath),
                 ExpectedAction(plan[2]),
                 ShellCommandEv(Trim(plan[2].body)),
                 ArtifactEndEv >>

\* C10: finalize() with no call in flight leaves state = IDLE, the buffer
\* and the content buffer empty and currentAction null, whatever they were;
\* a response given to the parser afterwards leaves the same session and
\* produces the same events and calls as on a newly constructed parser.
C10_FinalizeResets ==
    /\ (finalized > 0 /\ ~open) => Session = NewSession
    /\ (finalized > 0 /\ open) => (Session = fresh.sess /\ log = fresh.log)

\* a parser that was finalized has parsed another whole response, with an
\* action dispatched
C10_Witness ==
    /\ finalized = 1
    /\ open
    /\ pos = Len(stream)
    /\ Len(ActionEnds(log)) = 1
    /\ log = fresh.log

\* C11: whenever finalize() is called while an artifact is still open (state
\* IN_ARTIFACT, IN_FILE_ACTION or IN_SHELL_ACTION), it reports the
\* incomplete-stream warning.
C11_FinalizeWarnsWhenOpen ==
    [][(open /\ ~open' /\ state # "IDLE") => warned' = warned + 1]_vars

\* the calls that start work of the executor
IsExecutorCall(e) == e.ev \in {"fs.mkdir", "fs.writeFile", "shellCommand"}

\* e is a container call of the suspended writeFile call c
BelongsTo(e, c) ==
    \/ e.ev = "fs.writeFile" /\ e.filePath = c.filePath /\ e.content = c.content
    \/ e.ev = "fs.mkdir" /\ \E k \in 1..Len(c.parts) : e.filePath = c.parts[k]

\* C12: after finalize() an executor call already in flight runs to its end,
\* and no writeFile, mkdir or onShellCommand is started but by a call that
\* was in flight: nothing is started from the text that was in the buffer
\* when finalize() was called.
C12_NothingNewAfterFinalize ==
    [][(~open /\ log' # log) =>
           \E k \in 1..Len(calls) :
               LET new == SelectSeq(SubSeq(log', Len(log) + 1, Len(log')),
                                    IsExecutorCall)
               IN  /\ \A j \in 1..Len(new) : BelongsTo(new[j], calls[k])
                   /\ Len(SelectSeq(new, IsWriteFile)) <= 1]_vars

\* finalize() was called with text of a later action in the buffer while a
\* file action was being written, and the write has completed since
C12_Witness ==
    /\ ~open
    /\ finalized = 1
    /\ calls = <<>>
    /\ Len(plan) = 2
    /\ pos = Len(stream)
    /\ state = "IN_ARTIFACT"
    /\ Len(SelectSeq(log, IsWriteFile)) = 1
    /\ Len(ActionEnds(log)) = 1

IsError(e) == e.ev = "error"
IsRejectedWrite(e) == e.ev = "rejected" /\ e.type = "write"

\* what does not depend on the answers of the container: the observer events
\* (but onError and onFileWritten) and the calls that start work
IsRegardless(e) ==
    e.ev \in {"artifactStart", "artifactEnd", "actionStart", "actionEnd",
              "shellCommand", "fs.mkdir", "fs.writeFile"}

\* C13: when container.fs.writeFile fails for a file action, onError is
\* invoked exactly once for it (and never otherwise), processChunk returns
\* with the parser where it is with a container that never fails, and the
\* actions are dispatched exactly as with a container that never fails.
C13_WriteFailureContained ==
    open =>
        /\ Session = fresh.sess
        /\ SelectSeq(log, IsRegardless) = SelectSeq(fresh.log, IsRegardless)
        /\ Len(SelectSeq(log, IsError)) = Len(SelectSeq(log, IsRejectedWrite))
        /\ \A j \in 1..Len(log) :
               IsRejectedWrite(log[j]) =>
                   /\ j + 2 <= Len(log)
                   /\ log[j + 1] = ErrorEv(log[j].filePath)
                   /\ IsActionEnd(log[j + 2])
                   /\ log[j + 2].filePath = log[j].filePath

\* the write of a file action failed, and the shell action after it was
\* dispatched
C13_Witness ==
    /\ open
    /\ state = "IN_ARTIFACT"
    /\ \E i, j \in 1..Len(log) :
           /\ i < j
           /\ IsRejectedWrite(log[i])
           /\ IsShellCommand(log[j])

IsRejectedMkdir(e) == e.ev = "rejected" /\ e.type = "mkdir"
IsFileWritten(e) == e.ev = "fileWritten"

\* the events and calls after the j-th up to the next onActionEnd
UpToActionEnd(evs, j) ==
    LET ends == {k \in (j + 1)..Len(evs) : IsActionEnd(evs[k])}
    IN  IF ends = {} THEN SubSeq(evs, j + 1, Len(evs))
        ELSE SubSeq(evs, j + 1, MinOf(ends))

\* C14: when fs.mkdir fails while the parent directories of a file action are
\* prepared, for another reason than the directory existing already, the
\* failure is reported through onError and the action is not reported as
\* written; when it fails because the directory exists, no error is
\* reported and the file is written.
C14_MkdirFailureIsHardError ==
    \A j \in 1..Len(log) :
        IsRejectedMkdir(log[j]) =>
            LET after == UpToActionEnd(log, j)
            IN  IF log[j].content = "EEXIST"
                THEN /\ SelectSeq(after, IsError) = <<>>
                     /\ SelectSeq(after, IsFileWritten) # <<>>
                ELSE /\ SelectSeq(after, IsError) # <<>>
                     /\ SelectSeq(after, IsFileWritten) = <<>>

RECURSIVE Persisted(_, _)
\* the content of the file at path after the calls of evs: the content of
\* the last fs.writeFile(path, content) that the container did not reject
Persisted(evs, path) ==
    IF Len(evs) = 0 THEN ""
    ELSE LET n == Len(evs)
             e == evs[n]
         IN  IF IsRejectedWrite(e) /\ e.filePath = path
             THEN Persisted(SubSeq(evs, 1, n - 2), path)
             ELSE IF IsWriteFile(e) /\ e.filePath = path THEN e.content
             ELSE Persisted(SubSeq(evs, 1, n - 1), path)

\* the container answers every call, or says that the directory exists
OnlyExists(evs) ==
    \A j \in 1..Len(evs) :
        evs[j].ev = "rejected" => (evs[j].type = "mkdir" /\ evs[j].content = "EEXIST")

\* C15: two file actions with the same path and different contents, the
\* parent directory existing already or not: no error is surfaced, the
\* content of the second action is the final content of the file, and
\* onFileWritten(path) fires once for each of the two writes.
C15_SamePathTwice ==
    (plan = SamePathTwice /\ pos = Len(stream) /\ OnlyExists(log)) =>
        /\ SelectSeq(log, IsError) = <<>>
        /\ Persisted(log, plan[2].filePath) = Trim(plan[2].body)
        /\ SelectSeq(log, IsFileWritten)
               = <<FileWrittenEv(plan[1].filePath), FileWrittenEv(plan[2].filePath)>>

\* both actions were written, the directory existing already at the second
C15_Witness ==
    /\ plan = SamePathTwice
    /\ pos = Len(stream)
    /\ OnlyExists(log)
    /\ Len(SelectSeq(log, IsRejectedMkdir)) = 1
    /\ Len(SelectSeq(log, IsFileWritten)) = 2
    /\ Persisted(log, "d/x") = "b"

IsContainerCall(e) ==
    e.ev \in {"fs.mkdir", "fs.writeFile", "getFileTree", "setFileTree"}

IsShellEnd(e) == IsActionEnd(e) /\ e.type = "shell"

\* the onShellCommand calls for the Actions acts
ShellCommandsOf(acts) ==
    LET shells == SelectSeq(acts, IsShellEnd)
    IN  [k \in 1..Len(shells) |-> ShellCommandEv(shells[k].content)]

\* the session advanced as that of the parser with a container, and no call
\* on a container and no onError was made
C16_AsWithContainer ==
    /\ open => Session = fresh.sess
    /\ SelectSeq(log, IsContainerCall) = <<>>
    /\ SelectSeq(log, IsError) = <<>>

\* C16: with no container attached, every completed action with non-empty
\* content is reported (onActionEnd, and onShellCommand for a shell
\* action), no mkdir, writeFile or file-tree read is made, onError is never
\* invoked, and the state machine advances exactly as with a container.
C16_NoContainer ==
    /\ ActionEnds(log) = ExpectedEnds(plan, pos)
    /\ SelectSeq(log, IsShellCommand) = ShellCommandsOf(ExpectedEnds(plan, pos))
    /\ C16_AsWithContainer

IsTerminal(g) == g.sig \in {"complete", "error"}

\* C18: every call of streamOpenRouter that ends (end of the stream, HTTP or
\* transport error, abort) has given exactly one terminal signal, onComplete
\* or onError, and no onChunk after it; none is given before the call ends.
C18_OneTerminalSignal ==
    LET terminal == SelectSeq(router.signals, IsTerminal)
    IN  IF router.pc = "end"
        THEN /\ Len(terminal) = 1
             /\ IsTerminal(router.signals[Len(router.signals)])
        ELSE terminal = <<>>

\* C19: WebContainer.boot() is invoked at most once per page load, whatever
\* the interleaving of the bootWebContainer calls, and every call that
\* returns gives the same instance.
C19_BootOnce ==
    /\ boot.boots <= 1
    /\ \A j, k \in 1..Len(boot.calls) :
           boot.calls[j].pc = "returned" /\ boot.calls[k].pc = "returned"
               => boot.calls[j].result = boot.calls[k].result

\* C20: when a processChunk call has resolved, every action whose closing
\* delimiter lies in the stream received so far has been dispatched, several
\* actions of one chunk and an artifact still open included; no closing
\* delimiter is left in the buffers.
C20_NoCompletedActionWaits ==
    /\ Len(ActionEnds(log)) >= Len(ExpectedEnds(plan, pos))
    /\ ~Includes(buffer, closeTag)
    /\ ~Includes(contentBuffer, closeTag)

\* C21: in IN_FILE_ACTION / IN_SHELL_ACTION, once a pass found no closing
\* literal, all but the trailing len("</boltAction>") - 1 = 12 characters of
\* the text of the action received so far are in contentBuffer: the buffer
\* withholds exactly min(length of that text, 12) characters.
C21_WithholdsTagLengthLessOne ==
    state \in {"IN_FILE_ACTION", "IN_SHELL_ACTION"} =>
        LET received == Len(contentBuffer) + Len(buffer)
            withheld == Len(closeTag) - 1
        IN  Len(buffer) = IF received < withheld THEN received ELSE withheld

IsStructural(e) == e.ev \in {"artifactStart", "artifactEnd", "actionStart", "actionEnd"}

\* C23: in IN_FILE_ACTION / IN_SHELL_ACTION only the literal </boltAction>
\* ends the action. As long as the text of the action received so far holds
\* no </boltAction>, a chunk changes neither the state nor the action and
\* fires no event, whatever tags it holds; once it does, the action is
\* dispatched with the trimmed text before that literal, tags included, and
\* nothing else is fired before.
C23_OnlyCloseTagEndsAction ==
    [][(state \in {"IN_FILE_ACTION", "IN_SHELL_ACTION"} /\ pos' > pos) =>
          LET text == contentBuffer \o buffer \o SubSeq(stream, pos + 1, pos')
              k == IndexOf(text, closeTag)
              content == Trim(Slice(text, 0, k))
              new == SelectSeq(SubSeq(log', Len(log) + 1, Len(log')), IsStructural)
          IN  IF k = -1
              THEN /\ state' = state
                   /\ currentAction' = currentAction
                   /\ log' = log
                   /\ contentBuffer' \o buffer' = text
              ELSE IF content # ""
              THEN /\ new # <<>>
                   /\ new[1] = ActionEndEv(currentAction.type,
                                           currentAction.filePath, content)
              ELSE new = <<>> \/ new[1].ev # "actionEnd"]_vars

\* the whole response was received, and an action was dispatched whose
\* content holds the three kinds of tags
C23_Witness ==
    /\ pos = Len(stream)
    /\ \E j \in 1..Len(log) :
           /\ log[j].ev = "actionEnd"
           /\ Includes(log[j].content, ArtifactCloseTag)
           /\ Includes(log[j].content, ArtifactOpenLit)
           /\ Includes(log[j].content, ActionOpenLit)

RECURSIVE CountLit(_, _)
\* the number of occurrences of lit in s
CountLit(s, lit) ==
    LET k == IndexOf(s, lit)
    IN  IF k = -1 THEN 0 ELSE 1 + CountLit(SliceFrom(s, k + Len(lit)), lit)

IsArtifactStart(e) == e.ev = "artifactStart"
IsArtifactEnd(e) == e.ev = "artifactEnd"

\* C25: in IDLE every </boltArtifact> received with no opening tag of an
\* artifact in the buffer has been consumed when the call resolves, and has
\* fired one artifact-end each, the state remaining IDLE, several of them in
\* one chunk included.
C25_StrayCloseConsumed ==
    /\ (state = "IDLE" /\ ~MatchArtifactOpen(buffer).ok) =>
           ~Includes(buffer, ArtifactCloseTag)
    /\ (~Includes(stream, ArtifactOpenLit)) =>
           /\ state = "IDLE"
           /\ Len(SelectSeq(log, IsArtifactEnd))
                  = CountLit(SubSeq(stream, 1, pos), ArtifactCloseTag)

IsBoundary(e) == e.ev \in {"artifactStart", "artifactEnd"}

RECURSIVE Boundaries(_)
\* the artifact-start and artifact-end events of artifacts one after another
Boundaries(arts) ==
    IF Len(arts) = 0 THEN <<>>
    ELSE <<ArtifactStartEv(Head(arts).id, Head(arts).title), ArtifactEndEv>>
             \o Boundaries(Tail(arts))

\* the number of artifact-start and of artifact-end events up to the j-th
StartsUpto(j) == Cardinality({i \in 1..j : IsArtifactStart(log[i])})
EndsUpto(j) == Cardinality({i \in 1..j : IsArtifactEnd(log[i])})

\* C26: for a well-formed stream of k artifacts one after another, received
\* whole under any chunking, k artifact-start events (with the id and title
\* of each artifact) and k artifact-end events have fired, alternating and
\* beginning with artifact-start, and the events of each action lie between
\* the start and the end of its own artifact.
C26_ArtifactsAlternate ==
    \A arts \in Serials :
        (stream = "ok " \o RenderSerial(arts) /\ pos = Len(stream)) =>
            /\ SelectSeq(log, IsBoundary) = Boundaries(arts)
            /\ \A j \in 1..Len(log) :
                   log[j].ev \in {"actionStart", "actionEnd"} =>
                       \E n \in 1..Len(arts) :
                           /\ StartsUpto(j) = n
                           /\ EndsUpto(j) = n - 1
                           /\ \E k \in 1..Len(arts[n].p) :
                                  /\ arts[n].p[k].type = log[j].type
                                  /\ arts[n].p[k].filePath = log[j].filePath

\* C27: an opening tag with unknown or malformed attributes causes no
\* action-start, no dispatch, no error event and no state change: while
\* nothing but the tag, its content and its closing tag was received after
\* the opening of the artifact, the state is IN_ARTIFACT and only
\* artifact-start has fired. Once the whole stream was received, the next
\* well-formed action that follows it has been dispatched, and no action
\* but the well-formed ones was started.
C27_MalformedTagIgnored ==
    \A tag \in MalformedTags, p \in Followers :
        stream = MalformedText(tag, p) =>
            /\ \A j \in 1..Len(log) : log[j].ev # "error"
            /\ Len(SelectSeq(log, LAMBDA e : e.ev = "actionStart")) <= Len(p)
            /\ (/\ pos >= Len(Prologue)
                /\ pos <= Len(Prologue) + Len(tag) + 1 + Len(closeTag)
                /\ finalized = 0) =>
                   /\ state = "IN_ARTIFACT"
                   /\ SelectSeq(log, IsObserved) = <<ArtifactStartEv("a1", "T")>>
            /\ pos = Len(stream) =>
                   Count(log, ExpectedAction(p[1])) = 1

\* the index in log of the latest action-start before the j-th event, or 0
StartBefore(j) ==
    Max(0, CHOOSE i \in 0..(j - 1) :
               /\ i > 0 => log[i].ev = "actionStart"
               /\ \A h \in (i + 1)..(j - 1) : log[h].ev # "actionStart")

FilePathAttr(filePath) == " filePath=" \o Quote \o filePath \o Quote \o ">"

\* C28: every Action passed to onActionEnd is of type file or shell, has a
\* filePath if and only if it is a file, the filePath is then not empty and
\* is the filePath attribute of the opening tag that started the action, and
\* the content is not empty and neither begins nor ends with white space.
C28_ActionWellFormed ==
    \A j \in 1..Len(log) :
        log[j].ev = "actionEnd" =>
            LET e == log[j]
                i == StartBefore(j)
            IN  /\ e.type \in {"file", "shell"}
                /\ e.type = "file" <=> e.filePath # ""
                /\ e.content # ""
                /\ CharAt(e.content, 1) \notin WhiteSpace
                /\ CharAt(e.content, Len(e.content)) \notin WhiteSpace
                /\ i > 0
                /\ log[i].type = e.type
                /\ log[i].filePath = e.filePath
                /\ e.type = "file" =>
                       Includes(SubSeq(stream, 1, pos), FilePathAttr(e.filePath))

\* a file action and a shell action whose content was sent with white space
\* around it were both dispatched
C28_Witness ==
    /\ \E j \in 1..Len(log) : log[j] = ActionEndEv("file", "d/x", "hi")
    /\ \E j \in 1..Len(log) : log[j] = ActionEndEv("shell", "", "ls")

\* the positions of the slashes of path p, and the i-th of them
SlashesOf(p) == {k \in 1..Len(p) : CharAt(p, k) = "/"}
NthSlash(p, i) ==
    CHOOSE k \in SlashesOf(p) : Cardinality({h \in SlashesOf(p) : h < k}) = i - 1

\* the i-th proper prefix of p, from the root segment down
PrefixOf(p, i) == SubSeq(p, 1, NthSlash(p, i) - 1)

\* C30: for a file action with path p, fs.mkdir is called once for each
\* proper prefix of p, from the root segment down to the immediate parent, in
\* that order, all of them right before the single fs.writeFile(p, content);
\* a path with no directory part has no fs.mkdir.
C30_MkdirPrefixesInOrder ==
    /\ \A j \in 1..Len(log) :
           log[j].ev = "fs.writeFile" =>
               LET p == log[j].filePath
                   n == Cardinality(SlashesOf(p))
               IN  /\ j > n
                   /\ \A i \in 1..n : log[j - n + i - 1] = MkdirCall(PrefixOf(p, i))
                   /\ j - n - 1 >= 1 => log[j - n - 1].ev # "fs.mkdir"
                   /\ Len(SelectSeq(log, LAMBDA e : e.ev = "fs.writeFile"
                                                      /\ e.filePath = p)) = 1
    /\ \A j \in 1..Len(log) :
           log[j].ev = "fs.mkdir" =>
               \E h \in (j + 1)..Len(log) :
                   /\ log[h].ev = "fs.writeFile"
                   /\ \A i \in j..(h - 1) : log[i].ev = "fs.mkdir"

\* the file two directories down and the file in the root directory were
\* both written
C30_Witness ==
    /\ \E j \in 1..Len(log) : log[j] = WriteFileCall("a/b/x", "hi")
    /\ \E j \in 1..Len(log) : log[j] = WriteFileCall("y", "hi")

\* the length of the delimiter a pass in state st finds in buffer buf, 0 if
\* it finds none
DelimiterFound(st, buf) ==
    CASE st = "IDLE" ->
             IF MatchArtifactOpen(buf).ok THEN MatchArtifactOpen(buf).length
             ELSE IF Includes(buf, ArtifactCloseTag) THEN Len(ArtifactCloseTag)
             ELSE 0
      [] st = "IN_ARTIFACT" ->
             IF MatchFileOpen(buf).ok THEN MatchFileOpen(buf).length
             ELSE IF MatchShellOpen(buf).ok THEN MatchShellOpen(buf).length
             ELSE IF Includes(buf, ArtifactCloseTag) THEN Len(ArtifactCloseTag)
             ELSE 0
      [] OTHER -> IF Includes(buf, closeTag) THEN Len(closeTag) ELSE 0

\* C22: the loop of processBuffer terminates. A pass that reports progress
\* (the loop goes on) has found a delimiter and leaves the buffer shorter by
\* at least the length of that delimiter, a pass that finds no delimiter ends
\* the loop, the answers of the container leave the buffer alone, and every
\* call, the container answering, returns.
C22_LoopTerminates ==
    /\ [][/\ AtPass =>
                LET found == DelimiterFound(state, buffer)
                IN  /\ calls'[1].pc # "done" =>
                           /\ found > 0
                           /\ Len(buffer') <= Len(buffer) - found
                    /\ found = 0 => calls'[1].pc = "done"
          /\ (InCall /\ ~AtPass) => buffer' = buffer]_vars
    /\ (InCall ~> ~InCall)

\* a call that dispatched an action and opened the next one has ended its
\* loop at a pass that found no delimiter
C22_Witness ==
    /\ InCall
    /\ calls[1].pc = "done"
    /\ state = "IN_FILE_ACTION"
    /\ \E j \in 1..Len(log) : log[j].ev = "actionEnd"
    /\ pos < Len(stream)

\* the first position of buf at which the regular expression re matches, 0
\* if there is none
FirstAt(buf, re) ==
    LET at == {p \in 1..Len(buf) : MatchAt(buf, re, p).ok}
    IN  IF at = {} THEN 0 ELSE MinOf(at)

\* the events the step has fired
Fired == SubSeq(log', Len(log) + 1, Len(log'))

\* C24: a pass in IN_ARTIFACT takes the first applicable of: a file-action
\* opening tag, a shell-action opening tag, the literal </boltArtifact>,
\* wherever each lies in the buffer. The delimiter taken and the text before
\* it are dropped from the buffer, action-start (with the filePath of a file)
\* or artifact-end fires and the state becomes IN_FILE_ACTION,
\* IN_SHELL_ACTION or IDLE; with none of them in the buffer, buffer and state
\* are left alone and nothing fires.
C24_InArtifactPriority ==
    [][(AtPass /\ state = "IN_ARTIFACT") =>
          LET file == FirstAt(buffer, "file")
              shell == FirstAt(buffer, "shell")
              close == IndexOf(buffer, ArtifactCloseTag)
          IN  IF file > 0
              THEN LET mt == FileOpenAt(buffer, file)
                   IN  /\ state' = "IN_FILE_ACTION"
                       /\ buffer' = SubSeq(buffer, file + mt.length, Len(buffer))
                       /\ Fired = <<ActionStartEv("file", mt.a)>>
              ELSE IF shell > 0
              THEN LET mt == ShellOpenAt(buffer, shell)
                   IN  /\ state' = "IN_SHELL_ACTION"
                       /\ buffer' = SubSeq(buffer, shell + mt.length, Len(buffer))
                       /\ Fired = <<ActionStartEv("shell", "")>>
              ELSE IF close # -1
              THEN /\ state' = "IDLE"
                   /\ buffer' = SubSeq(buffer, close + Len(ArtifactCloseTag) + 1,
                                       Len(buffer))
                   /\ Fired = <<ArtifactEndEv>>
              ELSE /\ state' = state
                   /\ buffer' = buffer
                   /\ Fired = <<>>]_vars

\* a pass in IN_ARTIFACT took the opening tag of a file action though the
\* shell action received before it was in the buffer
C24_Witness ==
    /\ AtPass
    /\ state = "IN_FILE_ACTION"
    /\ log[Len(log)] = ActionStartEv("file", "d/x")
    /\ Includes(SubSeq(stream, 1, pos), ActionOpenTag(ShellAction("")))
    /\ \A j \in 1..Len(log) : log[j] # ActionStartEv("shell", "")

\* the session is consistent
Consistent ==
    /\ currentAction # NullAction <=> state \in {"IN_FILE_ACTION", "IN_SHELL_ACTION"}
    /\ state = "IN_FILE_ACTION" => currentAction.type = "file"
    /\ state = "IN_SHELL_ACTION" => currentAction.type = "shell"
    /\ state \in {"IDLE", "IN_ARTIFACT"} => contentBuffer = ""

\* the state changes of the passes
PassChanges ==
    { <<"IDLE", "IN_ARTIFACT">>, <<"IN_ARTIFACT", "IN_FILE_ACTION">>,
      <<"IN_ARTIFACT", "IN_SHELL_ACTION">>, <<"IN_FILE_ACTION", "IN_ARTIFACT">>,
      <<"IN_SHELL_ACTION", "IN_ARTIFACT">>, <<"IN_ARTIFACT", "IDLE">> }

\* C29: between awaited processChunk calls the session is consistent:
\* currentAction is set exactly in IN_FILE_ACTION and IN_SHELL_ACTION, its
\* type is that of the state, and contentBuffer is empty in IDLE and
\* IN_ARTIFACT. The state changes only from IDLE to IN_ARTIFACT, from
\* IN_ARTIFACT to an action state, from an action state to IN_ARTIFACT, from
\* IN_ARTIFACT to IDLE, and from any state to IDLE by finalize.
C29_SessionConsistent ==
    /\ [](~InCall => Consistent)
    /\ [][state' # state =>
              \/ <<state, state'>> \in PassChanges
              \/ finalized' = finalized + 1 /\ state' = "IDLE"]_vars

\* between two calls, inside a shell action with content in contentBuffer,
\* after another action was dispatched
C29_Witness ==
    /\ ~InCall
    /\ state = "IN_SHELL_ACTION"
    /\ contentBuffer # ""
    /\ \E j \in 1..Len(log) : log[j].ev = "actionEnd"
    /\ finalized = 0


-----------------------------------------------------------------------------
(* The refresh of the file tree fails after the write.                      *)

IsRejectedTree(e) == e.ev = "rejected" /\ e.type = "tree"

\* C31: when the file-tree refresh that follows a successful write fails, the
\* write is still reported as successful: onFileWritten(path) fires for the
\* path written, onError is not invoked, and onActionEnd of the action fires
\* as usual.
C31_RefreshFailureKeepsWrite ==
    \A j \in 1..Len(log) :
        IsRejectedTree(log[j]) =>
            /\ j > 2
            /\ log[j - 1] = GetFileTreeCall
            /\ IsWriteFile(log[j - 2])
            /\ j + 2 <= Len(log)
            /\ log[j + 1] = FileWrittenEv(log[j - 2].filePath)
            /\ log[j + 2] = ActionEndEv("file", log[j - 2].filePath, log[j - 2].content)
            /\ \A k \in (j - 2)..(j + 2) : ~IsError(log[k])
            /\ Len(SelectSeq(log, IsError)) = Len(SelectSeq(log, IsRejectedWrite))

\* the refresh failed after a write below a directory, and the call returned
C31_Witness ==
    /\ open
    /\ state = "IN_ARTIFACT"
    /\ \E j \in 1..Len(log) : IsRejectedTree(log[j])
    /\ \E j \in 1..Len(log) : log[j].ev = "fs.mkdir"
    /\ \E j \in 1..Len(log) : IsFileWritten(log[j])

-----------------------------------------------------------------------------
(* The close of a shell action.                                             *)

\* the command of the shell action whose closing tag is in the buffer
ClosingCommand ==
    Trim(contentBuffer \o Slice(buffer, 0, IndexOf(buffer, closeTag)))

\* the next pass of the loop closes a shell action that has a command
ShellCloses ==
    /\ AtPass
    /\ state = "IN_SHELL_ACTION"
    /\ Includes(buffer, closeTag)
    /\ ClosingCommand # ""

\* C32: on the close of a shell action with a non-empty trimmed command the
\* parser invokes onShellCommand with that command exactly once (followed by
\* onActionEnd), makes no call on the container and is back in IN_ARTIFACT
\* with the loop going on, the call waiting for nothing; this is so with and
\* without a container attached.
C32_ShellCommandForwarded ==
    [][ShellCloses =>
           /\ Fired = <<ShellCommandEv(ClosingCommand),
                        ActionEndEv("shell", "", ClosingCommand)>>
           /\ state' = "IN_ARTIFACT"
           /\ currentAction' = NullAction
           /\ contentBuffer' = ""
           /\ calls' # <<>>
           /\ calls'[1].pc = "loop"
           /\ UNCHANGED container]_vars

\* without a container, the command of a shell action was forwarded and the
\* call went on to its return
C32_Witness ==
    /\ ~container
    /\ ~InCall
    /\ state = "IN_ARTIFACT"
    /\ Len(log) >= 2
    /\ IsShellCommand(log[Len(log) - 1])
    /\ IsShellEnd(log[Len(log)])

-----------------------------------------------------------------------------
(* finalize() while a write is in flight.                                   *)

\* C33: when finalize() is called while a file write started by an earlier
\* processChunk call is still in flight, then once that call has returned the
\* session is still the fresh one set by finalize: state IDLE, buffer and
\* contentBuffer empty, currentAction null.
C33_FreshAfterInFlightWrite ==
    (finalized > 0 /\ ~open /\ calls = <<>>) => Session = NewSession

-----------------------------------------------------------------------------
(* onFileWritten and onError.                                               *)

IsFileEnd(e) == IsActionEnd(e) /\ e.type = "file"
IsWrittenOrError(e) == IsFileWritten(e) \/ IsError(e)

\* C34: onFileWritten(path) fires if and only if a
\* container.fs.writeFile(path, content) call for a dispatched file action
\* completed successfully: never when no container is attached or when the
\* write failed; with a container attached exactly one of onFileWritten and
\* onError fires for one action.
C34_WrittenIffWriteSucceeded ==
    /\ ~container => SelectSeq(log, IsWrittenOrError) = <<>>
    /\ container =>
           Len(SelectSeq(log, IsFileEnd)) = Len(SelectSeq(log, IsWriteFile))
    /\ Len(SelectSeq(log, IsWrittenOrError)) = Len(SelectSeq(log, IsWriteFile))
    /\ \A k \in 1..Len(log) :
           IsWriteFile(log[k]) =>
               LET seg == UpToActionEnd(log, k)
                   told == SelectSeq(seg, IsWrittenOrError)
               IN  /\ seg # <<>>
                   /\ seg[Len(seg)] =
                          ActionEndEv("file", log[k].filePath, log[k].content)
                   /\ SelectSeq(seg, IsWriteFile) = <<>>
                   /\ told = IF seg[1] = RejectedEv("write", "other", log[k].filePath)
                             THEN <<ErrorEv(log[k].filePath)>>
                             ELSE <<FileWrittenEv(log[k].filePath)>>

\* with a container, one write failed and another succeeded
C34_Witness ==
    /\ container
    /\ \E j \in 1..Len(log) : IsError(log[j])
    /\ \E j \in 1..Len(log) : IsFileWritten(log[j])

-----------------------------------------------------------------------------
(* onActionStart and onActionEnd.                                           *)

IsActionStart(e) == e.ev = "actionStart"
IsActionEvent(e) == IsActionStart(e) \/ IsActionEnd(e)

\* an action of the response with this opening tag has no content after
\* trimming
StartsEmptyAction(e) ==
    \E k \in 1..Len(plan) :
        /\ plan[k].type = e.type
        /\ plan[k].filePath = e.filePath
        /\ Trim(plan[k].body) = ""

\* C35: every onActionEnd is preceded by an onActionStart of the same type
\* (and the same filePath for a file) with no other action-start or
\* action-end between them, so that the two never nest and there are never
\* more action-end than action-start events; an action-start without a
\* following action-end occurs only for an action with empty trimmed content
\* or for one left open when the run ends.
C35_ActionEventsPaired ==
    LET acts == SelectSeq(log, IsActionEvent)
    IN  \A k \in 1..Len(acts) :
            /\ IsActionEnd(acts[k]) =>
                   /\ k > 1
                   /\ acts[k - 1] = ActionStartEv(acts[k].type, acts[k].filePath)
            /\ (IsActionStart(acts[k]) /\ ~StartsEmptyAction(acts[k])) =>
                   IF k < Len(acts) THEN IsActionEnd(acts[k + 1])
                   ELSE \/ pos < Len(stream)
                        \/ calls # <<>>

-----------------------------------------------------------------------------
(* The content deltas of a response.                                        *)

IsChunkSig(g) == g.sig = "chunk"

\* the onChunk calls for the data lines of a whole body, its last line
\* included
DeltasOf(body) == DeliverLines(SplitLines(body), <<>>)

\* the call read the body to its end
ReadToEnd ==
    /\ router.pc = "end"
    /\ router.read = Len(router.body)
    /\ router.signals # <<>>
    /\ router.signals[Len(router.signals)] = CompleteSig

\* C36: streamOpenRouter gives onChunk every non-empty content delta carried
\* by a 'data: ' line of the response exactly once and in the order of the
\* stream, however the bytes of the response are split across reads, the
\* last line of the response included when no newline follows it.
C36_EveryDeltaDelivered ==
    ReadToEnd => SelectSeq(router.signals, IsChunkSig) = DeltasOf(router.body)

-----------------------------------------------------------------------------
(* The streaming flags of the chat store.                                   *)

\* the positions of the messages with isStreaming = true
StreamingMessages ==
    {k \in 1..Len(chat.messages) : chat.messages[k].isStreaming}

\* C37: in the chat store, whenever isStreaming is false no message has
\* isStreaming = true, and whenever isStreaming is true currentStreamId is
\* the id of an existing message, the only one with isStreaming = true;
\* after any sequence of startStreaming, stopStreaming, addMessage,
\* appendToMessage, updateMessage and clearMessages.
C37_StreamingFlagsAgree ==
    IF ~chat.isStreaming THEN StreamingMessages = {}
    ELSE \E k \in 1..Len(chat.messages) :
             /\ chat.messages[k].id = chat.currentStreamId
             /\ StreamingMessages = {k}

-----------------------------------------------------------------------------
(* The open files of the container store.                                   *)

\* the positions of the open files with this path
OpenAt(path) == {k \in 1..Len(store.openFiles) : store.openFiles[k].path = path}

\* no path is open twice, and the active file is null or an open file
OpenFilesAgree ==
    /\ \A path \in Paths : Cardinality(OpenAt(path)) <= 1
    /\ \/ store.activeFile = NoFile
       \/ \E k \in 1..Len(store.openFiles) : store.openFiles[k] = store.activeFile

\* closeFile was called with the path of the active file
ClosesActive ==
    /\ did' = "closeFile"
    /\ store.activeFile # NoFile
    /\ \A k \in 1..Len(store.openFiles) :
           store.openFiles[k].path # store.activeFile.path =>
               \E j \in 1..Len(store'.openFiles) :
                   store'.openFiles[j] = store.openFiles[k]
    /\ \A j \in 1..Len(store'.openFiles) :
           store'.openFiles[j].path # store.activeFile.path

\* C38: after any sequence of openFile, closeFile, updateFileContent and
\* markFileSaved from the initial state, no two entries of openFiles have
\* the same path, and activeFile is null or has the path, content and
\* isDirty of an entry of openFiles; closing the active file makes the last
\* remaining open file active, or null when none remains.
C38_OpenFilesAgree ==
    /\ []OpenFilesAgree
    /\ [][ClosesActive =>
              store'.activeFile =
                  IF store'.openFiles = <<>> THEN NoFile
                  ELSE store'.openFiles[Len(store'.openFiles)]]_vars

\* the active file, the first of three open files, was closed: the third is
\* active, and it was edited
C38_Witness ==
    /\ did = "closeFile"
    /\ Len(store.openFiles) = 2
    /\ store.activeFile = store.openFiles[2]
    /\ store.activeFile.isDirty

-----------------------------------------------------------------------------
(* The status of the container during handleBoot.                           *)

\* the calls handleBoot makes on the container, in order
BootSteps == <<"bootWebContainer", "mount", "spawn npm install", "spawn npm run dev">>

\* the calls made when the step awaited at pc fails
StepsUpTo(pc) ==
    CASE pc = "boot" -> 1
      [] pc = "mount" -> 2
      [] pc \in {"installSpawn", "installExit"} -> 3
      [] OTHER -> 4

IsLoadingOrReady(st) == st \notin {"idle", "error"}

\* C40: during handleBoot the status passes through booting, mounting,
\* installing, starting in that order and becomes 'ready' only after the
\* dependencies were installed successfully and the server-ready callback
\* set the preview URL; when a step fails (a non-zero exit of the install
\* included) the status ends as 'error' with a non-null error message, and
\* no later step (the spawn of the dev server in particular) is executed.
C40_BootStatusInOrder ==
    header.calls > 0 =>
        /\ SelectSeq(header.trail, IsLoadingOrReady)
               = SubSeq(<<"booting", "mounting", "installing", "starting", "ready">>,
                        1, Len(SelectSeq(header.trail, IsLoadingOrReady)))
        /\ header.ran = SubSeq(BootSteps, 1, Len(header.ran))
        /\ store.status = header.trail[Len(header.trail)]
        /\ store.status = "ready" =>
               /\ header.exitCode = 0
               /\ header.ran = BootSteps
               /\ store.previewUrl # NoUrl
        /\ header.pc = "failed" =>
               /\ store.status = "error"
               /\ store.error # NoError
               /\ Len(header.ran) = StepsUpTo(header.failed)
               /\ header.failed # "devSpawn" => header.ran[Len(header.ran)] # BootSteps[4]

-----------------------------------------------------------------------------
(* The debounced save of the editor.                                        *)

\* C39: whenever the isDirty flag of an open file is false, the content last
\* written to the container for its path is the content the file has in the
\* store; an edit made while an earlier write is in flight is never left
\* marked as saved.
C39_SavedMeansWritten ==
    \A k \in 1..Len(store.openFiles) :
        ~store.openFiles[k].isDirty =>
            editor.disk[store.openFiles[k].path] = store.openFiles[k].content
====
